---- MODULE Spec2Model ----
(***************************************************************************)
(* Verification model of vibe-narrator: the terminal sanitizer and text    *)
(* buffer of terminal_client/bridge.py, the narration pipeline of          *)
(* narrator-mcp/server.py and the PTY orchestrator's narration scheduling. *)
(* Characters are modelled by their code points, strings by sequences of   *)
(* code points.                                                            *)
(***************************************************************************)
EXTENDS Integers, Sequences, FiniteSets, TLC

VARIABLES
    \* --- sanitizer harness (one _AnsiCleaner instance fed part by part)
    src,            \* the whole input string s
    pos,            \* number of characters of s already fed
    cl_state,       \* _AnsiCleaner.state of the streaming instance
    out,            \* concatenation of the outputs returned so far
    cut_inside,     \* some call so far returned inside an escape sequence
    \* --- TextBuffer
    buf,                \* ''.join(self._chunks)
    buffer_len,         \* self._buffer_len
    window_start_time,  \* None or a timestamp
    last_data_time,     \* None or a timestamp
    force_flush_all,
    now,                \* the clock read by time.time()
    op,                 \* the TextBuffer method called last
    ret,                \* what that call returned
    idle_since,         \* t0 of an add_data call not yet followed by a flush
    unreturned,         \* the text added so far, less what flush and flush_all returned
    conserved,          \* every string returned so far was the front of that text
    \* --- generate_narration (one narration request on the server)
    llm_pc,                 \* run_llm: "streaming", "done" or "failed"
    chunker_buffer,         \* ctx.chunker.buffer, a list of tokens
    generated_text_tokens,
    tts_queue,              \* chunk ids in queue order, 0 is the None sentinel
    put_log,                \* the text of every chunk put on tts_queue, by id
    tts_pc,                 \* run_tts: "waiting", "calling", "done" or "failed"
    tts_cur,                \* id of the block being synthesised
    audio_buffer,           \* fragments received for the current block
    audio_chunks,           \* ids of the blocks whose MP3 was appended, in order
    tts_finished,           \* ids of the blocks whose TTS call has ended
    gather_result,          \* asyncio.gather: "pending", "returned" or "raised"
    \* --- run_pty_with_narration (the PTY orchestrator and its narration tasks)
    loop_pc,            \* "running", "gathering" (awaiting the tasks) or "closed"
    child,              \* cmd_proc: "alive" or "exited"
    pty_eof,            \* a read of the PTY master returned EOF or failed
    buffered,           \* text_buffer.has_data()
    tasks,              \* narration_tasks in scheduling order, one record each
    sem_value,          \* narration_semaphore._value
    enqueued,           \* request id of every blob given to audio_player.add_chunk
    played,             \* blobs the playback worker has taken from the queue
    mirrored_after_fail,  \* some PTY read was mirrored after a narration failed
    scheduled_after_fail,  \* some narration was scheduled after a narration failed
    \* --- Chunker (one instance driven by add_token and flush calls)
    ck_variant,    \* which chunker.py: "narrator-mcp" or "narrator_mcp"
    ck_max_tokens,    \* self.max_tokens
    ck_sentence_boundary,    \* self.sentence_boundary
    ck_buffer,    \* self.buffer, a list of tokens
    ck_op,    \* the Chunker method called last
    ck_token,    \* the token given to the last add_token
    ck_ret,    \* what the last call returned
    ck_pending,    \* the tokens added since the last call that returned a chunk
    ck_calls,    \* number of calls made
    \* --- stream_llm (one call of the generator) and truncate_to_complete_sentence
    sl_pc,    \* "first", "cont" (inside a continuation request) or "done"
    sl_full,    \* full_response
    sl_original,    \* original_response
    sl_yielded,    \* concatenation of everything yielded to the caller
    sl_finish,    \* finish_reason: "none", "stop" or "length"
    sl_retry,    \* retry_count
    sl_ctext,    \* continue_text
    sl_cbuf,    \* continue_text_buffer
    tr_text,    \* argument of a truncate_to_complete_sentence call
    tr_result,    \* what that call returned
    tr_called,    \* the call has been made
    \* --- the narration server's Session and its configure tool
    session,    \* ctx.session: a record of the Session fields
    sess_op,    \* the tool called last
    cfg_args,    \* the arguments of the last configure call
    explicit_provider,    \* the tts_provider last given explicitly to configure, if any
    sess_calls,    \* number of tool calls made
    \* --- the narrate, narrate_text and get_config_status tools
    env_openai,    \* OPENAI_API_KEY of the app.py process
    env_eleven,    \* ELEVENLABS_API_KEY of the app.py process
    configured,    \* some configure call has been made
    tool_ret,    \* how the last narrate or narrate_text call ended
    requests,    \* number of generate_narration runs (LLM and TTS requests) started
    status_ret,    \* what the last get_config_status call returned
    \* --- the audio player
    pyaudio_available,    \* AudioPlayer.pyaudio_available
    is_playing,    \* AudioPlayer.is_playing
    audio_queue,    \* AudioPlayer.audio_queue: blob numbers and sentinels
    unfinished_tasks,    \* audio_queue.unfinished_tasks
    launched,    \* number of playback threads started; playback_thread is the last one
    workers,    \* each playback thread: position, blob in hand, output stream
    written,    \* the blobs written to an output stream, in the order written
    dropped,    \* the blobs given up after an error
    put_count,    \* number of blobs put on the queue
    stops,    \* number of stop() calls that stopped a playing player
    main_pc,    \* where the calling thread is: idle, in stop()'s join, in wait_for_completion's loop
    join_wait,    \* seconds spent in stop()'s join
    wfc_timeout,    \* the timeout of the running wait_for_completion
    wfc_elapsed,    \* seconds spent in the running wait_for_completion
    play_op,    \* the last player step
    \* --- the I/O loop of run_pty_with_narration and the exit of the process
    td_pc,    \* where run_pty_with_narration is: top of the loop, in asyncio.wait, in the finally block, in gather, closed, exited
    td_child,    \* the child command: alive, exited, terminated
    td_code,    \* cmd_proc.returncode
    td_out,    \* chunks of output the child has written to the PTY
    td_pty,    \* chunks of output not yet read from the PTY
    td_buf,    \* chunks of output in text_buffer
    td_pending,    \* narration tasks that are not done
    td_done,    \* narration tasks that are done: finished, failed or timed out
    td_stdin,    \* stdin_is_tty
    td_path,    \* how the loop was left
    td_exit,    \* the exit status of the bridge process
    td_fd,      \* the PTY master fd: "open" or "closed"
    td_closes,  \* number of os.close(master_fd) calls made
    td_stale,   \* an os call was made on master_fd after its close
    \* --- the event helpers of the narration server
    ev_target,    \* the kind of send target: an object with send(), or a callable
    ev_sent,    \* what the send target has received, in order
    ev_op,    \* the last helper called
    ev_encoding,    \* the encoding argument of the last send_audio_event call
    ev_ret,    \* how the last call ended
    ev_calls,    \* number of calls made
    \* --- narration requests that share the server's one Chunker
    sv_pc,    \* run_llm of each request: "idle", "streaming", "done" or "failed"
    sv_chunker,    \* ctx.chunker.buffer, the one Chunker of the AppContext
    sv_queue,    \* the tts_queue of each request: what run_llm has put on it
    sv_count    \* number of tokens streamed so far, all requests together

vars_clean == <<src, pos, cl_state, out, cut_inside>>
vars_buf == <<buf, buffer_len, window_start_time, last_data_time,
              force_flush_all, now, op, ret, idle_since, unreturned, conserved>>

vars_pipe == <<llm_pc, chunker_buffer, generated_text_tokens, tts_queue, put_log,
               tts_pc, tts_cur, audio_buffer, audio_chunks, tts_finished,
               gather_result>>

vars_orch == <<loop_pc, child, pty_eof, buffered, tasks, sem_value, enqueued, played,
               mirrored_after_fail, scheduled_after_fail>>

vars_chunk == <<ck_variant, ck_max_tokens, ck_sentence_boundary, ck_buffer, ck_op, ck_token, ck_ret, ck_pending, ck_calls>>

vars_llm == <<sl_pc, sl_full, sl_original, sl_yielded, sl_finish, sl_retry, sl_ctext, sl_cbuf, tr_text, tr_result, tr_called>>

vars_sess == <<session, sess_op, cfg_args, explicit_provider, sess_calls>>

vars_tool == <<env_openai, env_eleven, configured, tool_ret, requests, status_ret>>

vars_play == <<pyaudio_available, is_playing, audio_queue, unfinished_tasks, launched, workers,
              written, dropped, put_count, stops, main_pc, join_wait, wfc_timeout,
              wfc_elapsed, play_op>>

vars_down == <<td_pc, td_child, td_code, td_out, td_pty, td_buf, td_pending, td_done,
              td_stdin, td_path, td_exit, td_fd, td_closes, td_stale>>

vars_ev == <<ev_target, ev_sent, ev_op, ev_encoding, ev_ret, ev_calls>>

vars_share == <<sv_pc, sv_chunker, sv_queue, sv_count>>

vars == <<src, pos, cl_state, out, cut_inside,
          buf, buffer_len, window_start_time, last_data_time,
          force_flush_all, now, op, ret, idle_since, unreturned, conserved,
          llm_pc, chunker_buffer, generated_text_tokens, tts_queue, put_log,
          tts_pc, tts_cur, audio_buffer, audio_chunks, tts_finished,
          gather_result,
          loop_pc, child, pty_eof, buffered, tasks, sem_value, enqueued, played,
          mirrored_after_fail, scheduled_after_fail,
          ck_variant, ck_max_tokens, ck_sentence_boundary, ck_buffer, ck_op, ck_token, ck_ret, ck_pending, ck_calls,
          sl_pc, sl_full, sl_original, sl_yielded, sl_finish, sl_retry, sl_ctext, sl_cbuf, tr_text, tr_result, tr_called,
          session, sess_op, cfg_args, explicit_provider, sess_calls,
          env_openai, env_eleven, configured, tool_ret, requests, status_ret,
          pyaudio_available, is_playing, audio_queue, unfinished_tasks, launched, workers, written, dropped, put_count,
          stops, main_pc, join_wait, wfc_timeout, wfc_elapsed, play_op,
          td_pc, td_child, td_code, td_out, td_pty, td_buf, td_pending, td_done, td_stdin, td_path, td_exit, td_fd, td_closes, td_stale,
          ev_target, ev_sent, ev_op, ev_encoding, ev_ret, ev_calls,
          sv_pc, sv_chunker, sv_queue, sv_count>>

\* Python None for an Optional[float] timestamp (timestamps are >= 0)
None == -1

(***************************************************************************)
(* The state right after construction of each component; a specification   *)
(* that exercises one component leaves the others in this state.           *)
(***************************************************************************)
IdleClean ==
    /\ src = <<>>
    /\ pos = 0
    /\ cl_state = "text"
    /\ out = <<>>
    /\ cut_inside = FALSE

IdlePipe ==
    /\ llm_pc = "streaming"
    /\ chunker_buffer = <<>>
    /\ generated_text_tokens = <<>>
    /\ tts_queue = <<>>
    /\ put_log = <<>>
    /\ tts_pc = "waiting"
    /\ tts_cur = 0
    /\ audio_buffer = 0
    /\ audio_chunks = <<>>
    /\ tts_finished = {}
    /\ gather_result = "pending"

SEM_LIMIT == 2

IdleOrch ==
    /\ loop_pc = "running"
    /\ child = "alive"
    /\ pty_eof = FALSE
    /\ buffered = FALSE
    /\ tasks = <<>>
    /\ sem_value = SEM_LIMIT
    /\ enqueued = <<>>
    /\ played = 0
    /\ mirrored_after_fail = FALSE
    /\ scheduled_after_fail = FALSE

CHUNKER_MAX_TOKENS == 12

\* what add_token and flush return: None, or a chunk of text
NoChunk == [some |-> FALSE, text |-> <<>>]

IdleChunk ==
    /\ ck_variant = "narrator-mcp"
    /\ ck_max_tokens = CHUNKER_MAX_TOKENS
    /\ ck_sentence_boundary = TRUE
    /\ ck_buffer = <<>>
    /\ ck_op = "init"
    /\ ck_token = <<>>
    /\ ck_ret = NoChunk
    /\ ck_pending = <<>>
    /\ ck_calls = 0

IdleLlm ==
    /\ sl_pc = "first"
    /\ sl_full = <<>>
    /\ sl_original = <<>>
    /\ sl_yielded = <<>>
    /\ sl_finish = "none"
    /\ sl_retry = 0
    /\ sl_ctext = <<>>
    /\ sl_cbuf = <<>>
    /\ tr_text = <<>>
    /\ tr_result = <<>>
    /\ tr_called = FALSE

\* an Optional value: Absent is None, Given(x) is the value x
Absent == <<>>
Given(x) == <<x>>

\* the optional fields that configure copies when they are given; 0 stands
\* for the value the Session constructor sets
PlainFields == {"llm_model", "voice", "mode", "character", "base_url", "default_headers"}

\* Session.__init__
NewSession ==
    [llm_api_key |-> Absent,
     tts_api_key |-> Absent,
     tts_provider |-> Absent,
     plain |-> [f \in PlainFields |-> 0]]

\* no configure call yet
NoArgs ==
    [llm_api_key |-> <<>>,
     tts_api_key |-> Absent,
     tts_provider |-> Absent,
     plain |-> [f \in PlainFields |-> Absent]]

IdleSess ==
    /\ session = NewSession
    /\ sess_op = "init"
    /\ cfg_args = NoArgs
    /\ explicit_provider = Absent
    /\ sess_calls = 0

\* no narrate call yet / no get_config_status call yet
NoRet == [kind |-> "none", error |-> ""]
NoStatus == [called |-> FALSE]

IdleTool ==
    /\ env_openai = Absent
    /\ env_eleven = Absent
    /\ configured = FALSE
    /\ tool_ret = NoRet
    /\ requests = 0
    /\ status_ret = NoStatus

MaxStops == 1        \* stop() calls on a playing player
\* a playback thread can be started at first and after each such stop()
Workers == 1..(MaxStops + 1)

\* a playback thread that has not been created
NewWorker == [pc |-> "unborn", cur |-> 0, stream |-> "none", open_failed |-> FALSE]

IdlePlay ==
    /\ pyaudio_available = TRUE
    /\ is_playing = FALSE
    /\ audio_queue = <<>>
    /\ unfinished_tasks = 0
    /\ launched = 0
    /\ workers = [w \in Workers |-> NewWorker]
    /\ written = <<>>
    /\ dropped = {}
    /\ put_count = 0
    /\ stops = 0
    /\ main_pc = "idle"
    /\ join_wait = 0
    /\ wfc_timeout = None
    /\ wfc_elapsed = 0
    /\ play_op = "init"

IdleDown ==
    /\ td_pc = "top"
    /\ td_child = "alive"
    /\ td_code = None
    /\ td_out = 0
    /\ td_pty = 0
    /\ td_buf = 0
    /\ td_pending = 0
    /\ td_done = 0
    /\ td_stdin = FALSE
    /\ td_path = "none"
    /\ td_exit = None
    /\ td_fd = "open"
    /\ td_closes = 0
    /\ td_stale = FALSE

IdleEv ==
    /\ ev_target = "callable"
    /\ ev_sent = <<>>
    /\ ev_op = "init"
    /\ ev_encoding = ""
    /\ ev_ret = "none"
    /\ ev_calls = 0

MaxReq == 2
Requests == 1..MaxReq

IdleShare ==
    /\ sv_pc = [r \in Requests |-> "idle"]
    /\ sv_chunker = <<>>
    /\ sv_queue = [r \in Requests |-> <<>>]
    /\ sv_count = 0

IdleBuf ==
    /\ buf = <<>>
    /\ buffer_len = 0
    /\ window_start_time = None
    /\ last_data_time = None
    /\ force_flush_all = FALSE
    /\ now = 0
    /\ op = "init"
    /\ ret = None
    /\ idle_since = None
    /\ unreturned = <<>>
    /\ conserved = TRUE

(***************************************************************************)
(* Code points used by the sanitizer and the buffer.                       *)
(***************************************************************************)
ESC == 27
BEL == 7
NL == 10
TAB == 9
LBRACKET == 91
RBRACKET == 93
BACKSLASH == 92
CSI8 == 155
ST8 == 156
OSC8 == 157
DEL == 127
REPLACEMENT == 65533

StringIntroducers == {80, 88, 94, 95}          \* 'P', 'X', '^', '_'
C1StringIntroducers == {144, 152, 158, 159}    \* DCS, SOS, PM, APC

(***************************************************************************)
(* Bounds of the sanitizer harness.                                        *)
(***************************************************************************)
MaxLen == 4
CleanAlphabet == {ESC, LBRACKET, RBRACKET, 80, BACKSLASH, 32, 97, BEL, NL, CSI8}

RECURSIVE StringsUpTo(_, _)
StringsUpTo(S, n) ==
    IF n = 0 THEN {<<>>}
    ELSE LET shorter == StringsUpTo(S, n - 1)
         IN shorter \cup {Append(s, c) : s \in {t \in shorter : Len(t) = n - 1}, c \in S}

(***************************************************************************)
(* _AnsiCleaner.clean: one transition of the state machine.  Returns the   *)
(* next state and whether the character is appended to the result.         *)
(***************************************************************************)
clean_step(state, ch) ==
    CASE state = "text" ->
            IF ch = ESC THEN [state |-> "esc", emit |-> FALSE]
            ELSE IF ch = CSI8 THEN [state |-> "csi", emit |-> FALSE]
            ELSE IF ch \in C1StringIntroducers THEN [state |-> "string", emit |-> FALSE]
            ELSE IF ch = OSC8 THEN [state |-> "osc", emit |-> FALSE]
            ELSE IF ch < 32 /\ ch \notin {NL, TAB} THEN [state |-> "text", emit |-> FALSE]
            ELSE [state |-> "text", emit |-> TRUE]
      [] state = "esc" ->
            IF ch = LBRACKET THEN [state |-> "csi", emit |-> FALSE]
            ELSE IF ch = RBRACKET THEN [state |-> "osc", emit |-> FALSE]
            ELSE IF ch \in StringIntroducers THEN [state |-> "string", emit |-> FALSE]
            ELSE IF ch = BACKSLASH THEN [state |-> "text", emit |-> FALSE]
            ELSE IF 32 <= ch /\ ch <= 47 THEN [state |-> "esc_inter", emit |-> FALSE]
            ELSE [state |-> "text", emit |-> FALSE]
      [] state = "esc_inter" ->
            IF 64 <= ch /\ ch <= 126 THEN [state |-> "text", emit |-> FALSE]
            ELSE [state |-> "esc_inter", emit |-> FALSE]
      [] state = "csi" ->
            IF ch = ESC THEN [state |-> "esc", emit |-> FALSE]
            ELSE IF 64 <= ch /\ ch <= 126 THEN [state |-> "text", emit |-> FALSE]
            ELSE [state |-> "csi", emit |-> FALSE]
      [] state = "osc" ->
            IF ch = BEL \/ ch = ST8 THEN [state |-> "text", emit |-> FALSE]
            ELSE IF ch = ESC THEN [state |-> "osc_esc", emit |-> FALSE]
            ELSE [state |-> "osc", emit |-> FALSE]
      [] state = "osc_esc" ->
            IF ch \in {BACKSLASH, BEL, ST8} THEN [state |-> "text", emit |-> FALSE]
            ELSE IF ch = ESC THEN [state |-> "osc_esc", emit |-> FALSE]
            ELSE [state |-> "osc", emit |-> FALSE]
      [] state = "string" ->
            IF ch \in {BEL, ST8} THEN [state |-> "text", emit |-> FALSE]
            ELSE IF ch = ESC THEN [state |-> "string_esc", emit |-> FALSE]
            ELSE [state |-> "string", emit |-> FALSE]
      [] state = "string_esc" ->
            IF ch \in {BACKSLASH, BEL, ST8} THEN [state |-> "text", emit |-> FALSE]
            ELSE IF ch = ESC THEN [state |-> "string_esc", emit |-> FALSE]
            ELSE [state |-> "string", emit |-> FALSE]

(***************************************************************************)
(* _AnsiCleaner.clean(text) on an instance whose state is `state`: the     *)
(* loop over the characters; returns the new self.state and the result.    *)
(***************************************************************************)
RECURSIVE clean_loop_keep(_, _, _, _)
RECURSIVE clean_loop(_, _, _, _)

\* a loop that keeps the character that opens an escape sequence
clean_loop_keep(state, text, i, result) ==
    IF i > Len(text) THEN [state |-> state, out |-> result]
    ELSE LET r == clean_step(state, text[i])
         IN clean_loop_keep(r.state, text, i + 1,
                            IF r.emit \/ (state = "text" /\ r.state # "text")
                            THEN Append(result, text[i]) ELSE result)

clean_loop(state, text, i, result) ==
    IF i > Len(text) THEN [state |-> state, out |-> result]
    ELSE LET r == clean_step(state, text[i])
         IN clean_loop(r.state, text, i + 1,
                       IF r.emit THEN Append(result, text[i]) ELSE result)

\* a cleaner that forgets self.state between calls
clean_stateless(state, text) == clean_loop("text", text, 1, <<>>)

clean(state, text) == clean_loop(state, text, 1, <<>>)

(***************************************************************************)
(* clean_ansi_codes: the module-level sanitizer.  After the state machine  *)
(* it drops [\x00-\x07\x0b\x0c\x0e-\x1f\x7f], U+FFFD and the zero-width    *)
(* and bidi code points.                                                   *)
(***************************************************************************)
IsDroppedControl(ch) ==
    \/ 0 <= ch /\ ch <= 7
    \/ ch = 11 \/ ch = 12
    \/ 14 <= ch /\ ch <= 31
    \/ ch = DEL

IsGarbled(ch) ==
    \/ ch = REPLACEMENT
    \/ 8203 <= ch /\ ch <= 8207
    \/ 8234 <= ch /\ ch <= 8238
    \/ ch = 65279

\* the state machine alone, without the filters that follow it
clean_ansi_codes_unfiltered(state, text) ==
    IF text = <<>> THEN [state |-> state, out |-> text]
    ELSE clean(state, text)

clean_ansi_codes(state, text) ==
    IF text = <<>> THEN [state |-> state, out |-> text]
    ELSE LET r == clean(state, text)
         IN [state |-> r.state,
             out |-> SelectSeq(r.out, LAMBDA ch : ~IsDroppedControl(ch) /\ ~IsGarbled(ch))]

(***************************************************************************)
(* TextBuffer.  Timestamps are whole seconds; MIN_WINDOW and               *)
(* PAUSE_THRESHOLD are the constructor defaults.                           *)
(***************************************************************************)
MIN_WINDOW == 2
PAUSE_THRESHOLD == 5

MaxTime == 6
MaxBuf == 3
MaxAdd == 1
BufAlphabet == {ESC, LBRACKET, RBRACKET, 80, 97, NL}

\* Python truthiness of an Optional[float] timestamp: None and 0.0 are falsy
Truthy(t) == t # None /\ t # 0

\* a timestamp test that only asks whether the timestamp is set
IsSet(t) == t # None

\* where the regex anchor $ can sit: at the end of the string, and just
\* before a newline that ends the string
EndPositions(text) ==
    {Len(text)} \cup (IF Len(text) > 0 /\ text[Len(text)] = NL THEN {Len(text) - 1} ELSE {})

IsCsiParam(ch) == (48 <= ch /\ ch <= 57) \/ ch \in {59, 58, 63, 60, 62}   \* [0-9;:?<>]
IsIntermediate(ch) == 32 <= ch /\ ch <= 47                                \* [ -/]

\* '(\x1b][^\x07\x1b]*)$' matches at index i
MatchOscTail(text, i) ==
    /\ i + 1 <= Len(text)
    /\ text[i] = ESC /\ text[i + 1] = RBRACKET
    /\ \E e \in EndPositions(text) :
          /\ e >= i + 1
          /\ \A j \in (i + 2)..e : text[j] \notin {BEL, ESC}

\* '((?:\x1b\[|\x9b)[0-9;:?<>]*[ -/]*)$' matches at index i
MatchCsiTail(text, i) ==
    \E b \in {i + 1, i + 2} :
        /\ \/ b = i + 2 /\ i + 1 <= Len(text) /\ text[i] = ESC /\ text[i + 1] = LBRACKET
           \/ b = i + 1 /\ text[i] = CSI8
        /\ \E e \in EndPositions(text) :
              /\ e >= b - 1
              /\ \E k \in b..(e + 1) :
                    /\ \A j \in b..(k - 1) : IsCsiParam(text[j])
                    /\ \A j \in k..e : IsIntermediate(text[j])

\* '(\x1b[\x20-\x2f]*)$' matches at index i
MatchEscInterTail(text, i) ==
    /\ text[i] = ESC
    /\ \E e \in EndPositions(text) :
          /\ e >= i
          /\ \A j \in (i + 1)..e : IsIntermediate(text[j])

\* '(\x1b)$' matches at index i
MatchEscTail(text, i) ==
    /\ text[i] = ESC
    /\ i \in EndPositions(text)

\* re.search: the start of the leftmost match of pattern n, 0 when none
SearchTail(n, text) ==
    LET hits == {i \in 1..Len(text) :
                    CASE n = 1 -> MatchOscTail(text, i)
                      [] n = 2 -> MatchCsiTail(text, i)
                      [] n = 3 -> MatchEscInterTail(text, i)
                      [] n = 4 -> MatchEscTail(text, i)}
    IN IF hits = {} THEN 0 ELSE CHOOSE i \in hits : \A j \in hits : i <= j

\* TextBuffer._split_incomplete_escape_tail: <<safe_text, tail>>
split_incomplete_escape_tail(text) ==
    IF text = <<>> THEN <<text, <<>>>>
    ELSE LET first == IF SearchTail(1, text) > 0 THEN SearchTail(1, text)
                      ELSE IF SearchTail(2, text) > 0 THEN SearchTail(2, text)
                      ELSE IF SearchTail(3, text) > 0 THEN SearchTail(3, text)
                      ELSE SearchTail(4, text)
         IN IF first = 0 THEN <<text, <<>>>>
            ELSE <<SubSeq(text, 1, first - 1), SubSeq(text, first, Len(text))>>

\* str.find('\n') as a 1-based index, 0 when there is no newline
FirstNewline(text) ==
    LET hits == {i \in 1..Len(text) : text[i] = NL}
    IN IF hits = {} THEN 0 ELSE CHOOSE i \in hits : \A j \in hits : i <= j

\* str.rfind('\n') as a 1-based index, 0 when there is no newline
LastNewline(text) ==
    LET hits == {i \in 1..Len(text) : text[i] = NL}
    IN IF hits = {} THEN 0 ELSE CHOOSE i \in hits : \A j \in hits : i >= j

IsFront(p, s) == Len(p) <= Len(s) /\ SubSeq(s, 1, Len(p)) = p

\* TextBuffer.has_complete_lines
has_complete_lines(b) == \E i \in 1..Len(b) : b[i] = NL

\* TextBuffer.should_flush(current_time): the value returned and the value
\* force_flush_all has afterwards
should_flush(b, blen, wst, ldt, ffa, current_time) ==
    IF blen = 0 THEN [ret |-> FALSE, ffa |-> ffa]
    ELSE IF Truthy(wst) /\ current_time - wst >= MIN_WINDOW
         THEN [ret |-> TRUE, ffa |-> ~has_complete_lines(b)]
    ELSE IF Truthy(ldt) /\ current_time - ldt >= PAUSE_THRESHOLD
         THEN [ret |-> TRUE, ffa |-> ~has_complete_lines(b)]
    ELSE [ret |-> FALSE, ffa |-> ffa]

\* a flush that forgets the held-back tail when nothing is left to return
flush_discarding_tail(b, blen, wst, ldt, ffa, t) ==
    IF blen = 0
    THEN [ret |-> <<>>, buf |-> b, len |-> blen, wst |-> wst, ldt |-> ldt, ffa |-> ffa]
    ELSE
      LET ln == LastNewline(b)
          all == ln = 0 \/ ffa
          result == IF all THEN b ELSE SubSeq(b, 1, ln)
          remaining == IF all THEN <<>> ELSE SubSeq(b, ln + 1, Len(b))
          sp == split_incomplete_escape_tail(result)
          kept == IF sp[1] = <<>> THEN <<>> ELSE sp[2]
      IN [ret |-> sp[1],
          buf |-> kept \o remaining,
          len |-> Len(kept) + Len(remaining),
          wst |-> IF kept \o remaining = <<>> THEN None ELSE t,
          ldt |-> IF kept \o remaining = <<>> THEN None ELSE t,
          ffa |-> IF all THEN FALSE ELSE ffa]

\* TextBuffer.flush(): the returned string and the fields afterwards;
\* t is what time.time() returns during the call
flush(b, blen, wst, ldt, ffa, t) ==
    IF blen = 0
    THEN [ret |-> <<>>, buf |-> b, len |-> blen, wst |-> wst, ldt |-> ldt, ffa |-> ffa]
    ELSE
      LET ln == LastNewline(b)
          all == ln = 0 \/ ffa
          result == IF all THEN b ELSE SubSeq(b, 1, ln)
          remaining == IF all THEN <<>> ELSE SubSeq(b, ln + 1, Len(b))
          wst1 == IF all THEN None ELSE IF remaining # <<>> THEN t ELSE None
          ldt1 == IF all THEN None ELSE IF remaining # <<>> THEN ldt ELSE None
          ffa1 == IF all THEN FALSE ELSE ffa
          len1 == IF all THEN 0 ELSE Len(remaining)
          sp == split_incomplete_escape_tail(result)
          safe_text == sp[1]
          tail == sp[2]
      IN IF tail # <<>>
         THEN [ret |-> safe_text,
               buf |-> tail \o remaining,
               len |-> len1 + Len(tail),
               wst |-> IF wst1 = None THEN t ELSE wst1,
               ldt |-> t,
               ffa |-> ffa1]
         ELSE [ret |-> safe_text, buf |-> remaining, len |-> len1,
               wst |-> wst1, ldt |-> ldt1, ffa |-> ffa1]

(***************************************************************************)
(* TextBuffer actions: any interleaving of add_data, should_flush, flush   *)
(* and flush_all while the clock advances.                                 *)
(***************************************************************************)
InitBuf ==
    /\ IdleClean
    /\ IdlePipe
    /\ IdleOrch
    /\ IdleBuf
    /\ IdleChunk
    /\ IdleLlm
    /\ IdleSess
    /\ IdleTool
    /\ IdlePlay
    /\ IdleDown
    /\ IdleEv
    /\ IdleShare

\* bookkeeping for a string handed out by flush or flush_all: it is taken
\* off the front of the text not yet returned
Returned(text) ==
    /\ conserved' = (conserved /\ IsFront(text, unreturned))
    /\ unreturned' = SubSeq(unreturned, Len(text) + 1, Len(unreturned))

Tick ==
    /\ now < MaxTime
    /\ now' = now + 1
    /\ op' = "tick"
    /\ ret' = None
    /\ UNCHANGED <<buf, buffer_len, window_start_time, last_data_time,
                   force_flush_all, idle_since, unreturned, conserved>>
    /\ UNCHANGED vars_clean
    /\ UNCHANGED vars_pipe
    /\ UNCHANGED vars_orch
    /\ UNCHANGED vars_chunk
    /\ UNCHANGED vars_llm
    /\ UNCHANGED vars_sess
    /\ UNCHANGED vars_tool
    /\ UNCHANGED vars_play
    /\ UNCHANGED vars_down
    /\ UNCHANGED vars_ev
    /\ UNCHANGED vars_share

AddData(text) ==
    /\ Len(buf) + Len(text) <= MaxBuf
    /\ buf' = buf \o text
    /\ buffer_len' = buffer_len + Len(text)
    /\ window_start_time' = IF window_start_time = None THEN now ELSE window_start_time
    /\ last_data_time' = now
    /\ idle_since' = now
    /\ unreturned' = unreturned \o text
    /\ UNCHANGED conserved
    /\ op' = "add_data"
    /\ ret' = None
    /\ UNCHANGED <<force_flush_all, now>>
    /\ UNCHANGED vars_clean
    /\ UNCHANGED vars_pipe
    /\ UNCHANGED vars_orch
    /\ UNCHANGED vars_chunk
    /\ UNCHANGED vars_llm
    /\ UNCHANGED vars_sess
    /\ UNCHANGED vars_tool
    /\ UNCHANGED vars_play
    /\ UNCHANGED vars_down
    /\ UNCHANGED vars_ev
    /\ UNCHANGED vars_share

ShouldFlush ==
    /\ LET r == should_flush(buf, buffer_len, window_start_time, last_data_time,
                             force_flush_all, now)
       IN /\ ret' = r.ret
          /\ force_flush_all' = r.ffa
    /\ op' = "should_flush"
    /\ UNCHANGED <<buf, buffer_len, window_start_time, last_data_time, now, idle_since,
                   unreturned, conserved>>
    /\ UNCHANGED vars_clean
    /\ UNCHANGED vars_pipe
    /\ UNCHANGED vars_orch
    /\ UNCHANGED vars_chunk
    /\ UNCHANGED vars_llm
    /\ UNCHANGED vars_sess
    /\ UNCHANGED vars_tool
    /\ UNCHANGED vars_play
    /\ UNCHANGED vars_down
    /\ UNCHANGED vars_ev
    /\ UNCHANGED vars_share

Flush ==
    /\ LET r == flush(buf, buffer_len, window_start_time, last_data_time,
                      force_flush_all, now)
       IN /\ ret' = r.ret
          /\ buf' = r.buf
          /\ buffer_len' = r.len
          /\ window_start_time' = r.wst
          /\ last_data_time' = r.ldt
          /\ force_flush_all' = r.ffa
    /\ idle_since' = None
    /\ Returned(ret')
    /\ op' = "flush"
    /\ UNCHANGED now
    /\ UNCHANGED vars_clean
    /\ UNCHANGED vars_pipe
    /\ UNCHANGED vars_orch
    /\ UNCHANGED vars_chunk
    /\ UNCHANGED vars_llm
    /\ UNCHANGED vars_sess
    /\ UNCHANGED vars_tool
    /\ UNCHANGED vars_play
    /\ UNCHANGED vars_down
    /\ UNCHANGED vars_ev
    /\ UNCHANGED vars_share

FlushAll ==
    /\ ret' = buf
    /\ IF buffer_len = 0
       THEN UNCHANGED <<buf, buffer_len, window_start_time, last_data_time>>
       ELSE /\ buf' = <<>>
            /\ buffer_len' = 0
            /\ window_start_time' = None
            /\ last_data_time' = None
    /\ idle_since' = None
    /\ Returned(ret')
    /\ op' = "flush_all"
    /\ UNCHANGED <<force_flush_all, now>>
    /\ UNCHANGED vars_clean
    /\ UNCHANGED vars_pipe
    /\ UNCHANGED vars_orch
    /\ UNCHANGED vars_chunk
    /\ UNCHANGED vars_llm
    /\ UNCHANGED vars_sess
    /\ UNCHANGED vars_tool
    /\ UNCHANGED vars_play
    /\ UNCHANGED vars_down
    /\ UNCHANGED vars_ev
    /\ UNCHANGED vars_share

NextBuf ==
    \/ Tick
    \/ \E text \in StringsUpTo(BufAlphabet, MaxAdd) : AddData(text)
    \/ ShouldFlush
    \/ Flush
    \/ FlushAll

SpecBuf == InitBuf /\ [][NextBuf]_vars

\* C2: every string returned by flush, fed to a fresh sanitizer (state
\* text), leaves it in state text: no returned string ends inside an
\* unterminated escape sequence.
C2_FlushEscapeSafe ==
    op = "flush" => clean_ansi_codes("text", ret).state = "text"

\* C3: after add(x, t0) with no further add (and the added text still in
\* the buffer), should_flush(t) returns true for every t >= t0 +
\* PAUSE_THRESHOLD, for every t0 >= 0.
C3_IdleFlushes ==
    (/\ op = "should_flush"
     /\ idle_since # None
     /\ buffer_len > 0
     /\ now >= idle_since + PAUSE_THRESHOLD) => ret = TRUE

\* C10: should_flush(now) returns true iff the buffer is non-empty and
\* (now - window_start >= MIN_WINDOW or now - last_data_time >=
\* PAUSE_THRESHOLD); when true, force_flush_all is false if the buffer has a
\* newline and true otherwise.
C10_ShouldFlushIff ==
    op = "should_flush" =>
        /\ ret = (/\ buffer_len > 0
                  /\ \/ window_start_time # None /\ now - window_start_time >= MIN_WINDOW
                     \/ last_data_time # None /\ now - last_data_time >= PAUSE_THRESHOLD)
        /\ ret = TRUE => force_flush_all = ~has_complete_lines(buf)

\* the text flush() considers for return: the prefix that ends at the last
\* newline when there is one and force_flush_all is false, else everything
FlushCandidate(b, ffa) ==
    LET ends == {k \in 1..Len(b) : b[k] = NL}
    IN IF ends # {} /\ ~ffa
       THEN SubSeq(b, 1, CHOOSE k \in ends : \A j \in ends : j <= k)
       ELSE b

IsPrefix(p, s) == Len(p) <= Len(s) /\ SubSeq(s, 1, Len(p)) = p

InitClean ==
    /\ IdleBuf
    /\ IdlePipe
    /\ IdleOrch
    /\ IdleChunk
    /\ IdleLlm
    /\ IdleSess
    /\ IdleTool
    /\ IdlePlay
    /\ IdleDown
    /\ IdleEv
    /\ IdleShare
    /\ src \in StringsUpTo(CleanAlphabet, MaxLen)
    /\ pos = 0
    /\ cl_state = "text"
    /\ out = <<>>
    /\ cut_inside = FALSE

CleanPart(k) ==
    /\ pos + k <= Len(src)
    /\ LET r == clean_ansi_codes(cl_state, SubSeq(src, pos + 1, pos + k))
       IN /\ cl_state' = r.state
          /\ out' = out \o r.out
          /\ cut_inside' = (cut_inside \/ (r.state # "text" /\ pos + k < Len(src)))
    /\ pos' = pos + k
    /\ src' = src
    /\ UNCHANGED vars_buf
    /\ UNCHANGED vars_pipe
    /\ UNCHANGED vars_orch
    /\ UNCHANGED vars_chunk
    /\ UNCHANGED vars_llm
    /\ UNCHANGED vars_sess
    /\ UNCHANGED vars_tool
    /\ UNCHANGED vars_play
    /\ UNCHANGED vars_down
    /\ UNCHANGED vars_ev
    /\ UNCHANGED vars_share

NextClean == \E k \in 1..MaxLen : CleanPart(k)

SpecClean == InitClean /\ [][NextClean]_vars

\* C1: feeding any split of s part by part to one sanitizer instance that
\* starts in state text yields, concatenated, exactly the output of one
\* clean(s) call on a fresh instance (and leaves the same state).
C1_ChunkSplitting ==
    pos = Len(src) =>
        /\ out = clean_ansi_codes("text", src).out
        /\ cl_state = clean_ansi_codes("text", src).state

\* C1 witness: the whole input has been fed, a part boundary fell inside an
\* escape sequence, the sequence ended in a later part and text after it
\* was output.
C1_Witness ==
    /\ pos = Len(src)
    /\ cut_inside
    /\ cl_state = "text"
    /\ out # <<>>
    /\ Len(out) < Len(src)

(***************************************************************************)
(* The sanitizer applied to its own output: s is drawn at Init, the        *)
(* module-level instance cleans it, then cleans what it returned.  pos     *)
(* counts the calls made, out is what the last call returned.              *)
(***************************************************************************)
MaxSan == 3
BS == 8
CR == 13
ZWSP == 8203
RLO == 8238
SanAlphabet == {ESC, LBRACKET, 97, BEL, BS, CR, NL, TAB, DEL, CSI8, REPLACEMENT, ZWSP, RLO}

InitSan ==
    /\ IdleBuf
    /\ IdlePipe
    /\ IdleOrch
    /\ IdleChunk
    /\ IdleLlm
    /\ IdleSess
    /\ IdleTool
    /\ IdlePlay
    /\ IdleDown
    /\ IdleEv
    /\ IdleShare
    /\ src \in StringsUpTo(SanAlphabet, MaxSan)
    /\ pos = 0
    /\ cl_state = "text"
    /\ out = <<>>
    /\ cut_inside = FALSE

\* clean_ansi_codes(s)
SanitizeInput ==
    /\ pos = 0
    /\ LET r == clean_ansi_codes(cl_state, src)
       IN /\ cl_state' = r.state
          /\ out' = r.out
    /\ pos' = 1
    /\ UNCHANGED <<src, cut_inside>>
    /\ UNCHANGED vars_buf
    /\ UNCHANGED vars_pipe
    /\ UNCHANGED vars_orch
    /\ UNCHANGED vars_chunk
    /\ UNCHANGED vars_llm
    /\ UNCHANGED vars_sess
    /\ UNCHANGED vars_tool
    /\ UNCHANGED vars_play
    /\ UNCHANGED vars_down
    /\ UNCHANGED vars_ev
    /\ UNCHANGED vars_share

\* clean_ansi_codes(clean_ansi_codes(s)): the same instance, state carried
SanitizeOutput ==
    /\ pos = 1
    /\ LET r == clean_ansi_codes(cl_state, out)
       IN /\ cl_state' = r.state
          /\ out' = r.out
    /\ pos' = 2
    /\ UNCHANGED <<src, cut_inside>>
    /\ UNCHANGED vars_buf
    /\ UNCHANGED vars_pipe
    /\ UNCHANGED vars_orch
    /\ UNCHANGED vars_chunk
    /\ UNCHANGED vars_llm
    /\ UNCHANGED vars_sess
    /\ UNCHANGED vars_tool
    /\ UNCHANGED vars_play
    /\ UNCHANGED vars_down
    /\ UNCHANGED vars_ev
    /\ UNCHANGED vars_share

NextSan ==
    \/ SanitizeInput
    \/ SanitizeOutput

SpecSan == InitSan /\ [][NextSan]_vars

\* C12 as stated: for any input s, the sanitizer applied to its own output
\* returns that output unchanged.
C12_Idempotent ==
    [][(pos = 1 /\ pos' = 2) => out' = out]_vars

\* C12 amended: when s does not end inside an escape sequence (the
\* sanitizer is back in state text after s), the sanitizer applied to its
\* own output returns that output unchanged and stays in state text.
C12_IdempotentFromText ==
    [][(pos = 1 /\ pos' = 2 /\ cl_state = "text") =>
          (out' = out /\ cl_state' = "text")]_vars

\* the second application returned a non-empty output unchanged, for an
\* input from which the first application had removed something
C12_Witness ==
    /\ pos = 2
    /\ out # <<>>
    /\ out = clean_ansi_codes("text", src).out
    /\ Len(out) < Len(src)
    /\ \E k \in 1..Len(src) : src[k] = ESC

\* the code points named ZERO WIDTH ... and the bidi overrides LRO, RLO
ZeroWidth == {8203, 8204, 8205, 65279}
BidiOverride == {8237, 8238}

\* C13: the sanitizer's output has no character in 0x00-0x1F other than
\* newline and tab, no 0x7F, no U+FFFD and no zero-width or bidi-override
\* code point.
C13_NoControlInOutput ==
    \A k \in 1..Len(out) :
        /\ out[k] >= 32 \/ out[k] \in {NL, TAB}
        /\ out[k] # DEL
        /\ out[k] # REPLACEMENT
        /\ out[k] \notin ZeroWidth \cup BidiOverride

\* an input with a control character, DEL, U+FFFD or a zero-width or bidi
\* character outside any escape sequence was cleaned to a shorter,
\* non-empty output
C13_Witness ==
    /\ pos = 1
    /\ out # <<>>
    /\ Len(out) < Len(src)
    /\ \A k \in 1..Len(src) : src[k] \notin {ESC, CSI8}
    /\ \E k \in 1..Len(src) : src[k] \in {BS, CR, DEL, REPLACEMENT, ZWSP, RLO}

(***************************************************************************)
(* Token chunker of the narration server (narrator-mcp/chunker.py).  A     *)
(* token is a string; the buffer is the list of tokens added since the     *)
(* last emitted chunk.                                                     *)
(***************************************************************************)
SentenceEnds == {46, 33, 63, 12290, 65281, 65311}     \* . ! ? and the CJK full stops

RECURSIVE Join(_)
Join(tokens) == IF tokens = <<>> THEN <<>> ELSE Head(tokens) \o Join(Tail(tokens))

\* SENTENCE_END_RE.search(text): [...]$ with $ also before a final newline
EndsSentence(text) ==
    \E e \in EndPositions(text) : e >= 1 /\ text[e] \in SentenceEnds

\* Chunker.add_token with sentence_boundary = True: the chunk returned
\* (<<>> stands for None: a returned chunk is never empty here) and the
\* buffer afterwards
add_token(buffer, token) ==
    LET buffer1 == Append(buffer, token)
        text == Join(buffer1)
    IN IF EndsSentence(text) THEN [chunk |-> text, buffer |-> <<>>]
       ELSE IF Len(buffer1) >= CHUNKER_MAX_TOKENS THEN [chunk |-> text, buffer |-> <<>>]
       ELSE [chunk |-> <<>>, buffer |-> buffer1]

\* Chunker.flush
chunker_flush(buffer) ==
    IF buffer = <<>> THEN [chunk |-> <<>>, buffer |-> <<>>]
    ELSE [chunk |-> Join(buffer), buffer |-> <<>>]

Whitespace == {32, 9, 10, 13}

RECURSIVE Strip(_, _)
Strip(text, chars) ==
    IF text = <<>> THEN text
    ELSE IF Head(text) \in chars THEN Strip(Tail(text), chars)
    ELSE IF text[Len(text)] \in chars THEN Strip(SubSeq(text, 1, Len(text) - 1), chars)
    ELSE text

\* block.strip().strip('"').strip("'").strip()
Stripped(block) == Strip(Strip(Strip(Strip(block, Whitespace), {34}), {39}), Whitespace)

(***************************************************************************)
(* The Chunker on its own, for any max_tokens and sentence_boundary and    *)
(* for both copies of chunker.py: add_token and flush called in any order. *)
(***************************************************************************)
MaxCap == 3
MaxCalls == 4
ChunkTokens == {<<119>>, <<46>>, <<46, NL>>, <<65281>>, <<>>}   \* "w", ".", ".\n", "！", ""

SomeChunk(text) == [some |-> TRUE, text |-> text]

\* Chunker.add_token of src/narrator-mcp/chunker.py with a token cap that
\* is only reached above max_tokens
Chunker_add_token_late(max_tokens, sentence_boundary, buffer, token) ==
    LET buffer1 == Append(buffer, token)
        text == Join(buffer1)
    IN IF sentence_boundary /\ EndsSentence(text)
       THEN [ret |-> SomeChunk(text), buffer |-> <<>>]
       ELSE IF Len(buffer1) > max_tokens
       THEN [ret |-> SomeChunk(text), buffer |-> <<>>]
       ELSE [ret |-> NoChunk, buffer |-> buffer1]

\* Chunker.add_token of src/narrator-mcp/chunker.py
Chunker_add_token(max_tokens, sentence_boundary, buffer, token) ==
    LET buffer1 == Append(buffer, token)
        text == Join(buffer1)
    IN IF sentence_boundary /\ EndsSentence(text)
       THEN [ret |-> SomeChunk(text), buffer |-> <<>>]
       ELSE IF Len(buffer1) >= max_tokens
       THEN [ret |-> SomeChunk(text), buffer |-> <<>>]
       ELSE [ret |-> NoChunk, buffer |-> buffer1]

\* Chunker.add_token of src/narrator_mcp/chunker.py
Chunker_add_token_pkg(max_tokens, sentence_boundary, buffer, token) ==
    LET buffer1 == Append(buffer, token)
        text == Join(buffer1)
    IN IF sentence_boundary
       THEN IF EndsSentence(text)
            THEN [ret |-> SomeChunk(text), buffer |-> <<>>]
            ELSE [ret |-> NoChunk, buffer |-> buffer1]
       ELSE IF Len(buffer1) >= max_tokens
       THEN [ret |-> SomeChunk(text), buffer |-> <<>>]
       ELSE [ret |-> NoChunk, buffer |-> buffer1]

\* a flush that returns the leftover text and keeps it
Chunker_flush_keep(buffer) ==
    IF buffer = <<>> THEN [ret |-> NoChunk, buffer |-> buffer]
    ELSE [ret |-> SomeChunk(Join(buffer)), buffer |-> buffer]

\* Chunker.flush (the same in both copies)
Chunker_flush(buffer) ==
    IF buffer = <<>> THEN [ret |-> NoChunk, buffer |-> buffer]
    ELSE [ret |-> SomeChunk(Join(buffer)), buffer |-> <<>>]

InitChunk ==
    /\ IdleClean
    /\ IdleBuf
    /\ IdlePipe
    /\ IdleOrch
    /\ IdleLlm
    /\ IdleSess
    /\ IdleTool
    /\ IdlePlay
    /\ IdleDown
    /\ IdleEv
    /\ IdleShare
    /\ ck_variant \in {"narrator-mcp", "narrator_mcp"}
    /\ ck_max_tokens \in 1..MaxCap
    /\ ck_sentence_boundary \in BOOLEAN
    /\ ck_buffer = <<>>
    /\ ck_op = "init"
    /\ ck_token = <<>>
    /\ ck_ret = NoChunk
    /\ ck_pending = <<>>
    /\ ck_calls = 0

AddToken(token) ==
    /\ ck_calls < MaxCalls
    /\ LET r == IF ck_variant = "narrator-mcp"
                THEN Chunker_add_token(ck_max_tokens, ck_sentence_boundary, ck_buffer, token)
                ELSE Chunker_add_token_pkg(ck_max_tokens, ck_sentence_boundary, ck_buffer, token)
       IN /\ ck_ret' = r.ret
          /\ ck_buffer' = r.buffer
          /\ ck_pending' = IF r.ret.some THEN <<>> ELSE Append(ck_pending, token)
    /\ ck_token' = token
    /\ ck_op' = "add_token"
    /\ ck_calls' = ck_calls + 1
    /\ UNCHANGED <<ck_variant, ck_max_tokens, ck_sentence_boundary>>
    /\ UNCHANGED <<vars_clean, vars_buf, vars_pipe, vars_orch>>
    /\ UNCHANGED vars_llm
    /\ UNCHANGED vars_sess
    /\ UNCHANGED vars_tool
    /\ UNCHANGED vars_play
    /\ UNCHANGED vars_down
    /\ UNCHANGED vars_ev
    /\ UNCHANGED vars_share

ChunkerFlush ==
    /\ ck_calls < MaxCalls
    /\ LET r == Chunker_flush(ck_buffer)
       IN /\ ck_ret' = r.ret
          /\ ck_buffer' = r.buffer
          /\ ck_pending' = IF r.ret.some THEN <<>> ELSE ck_pending
    /\ ck_op' = "flush"
    /\ ck_calls' = ck_calls + 1
    /\ UNCHANGED <<ck_variant, ck_max_tokens, ck_sentence_boundary, ck_token>>
    /\ UNCHANGED <<vars_clean, vars_buf, vars_pipe, vars_orch>>
    /\ UNCHANGED vars_llm
    /\ UNCHANGED vars_sess
    /\ UNCHANGED vars_tool
    /\ UNCHANGED vars_play
    /\ UNCHANGED vars_down
    /\ UNCHANGED vars_ev
    /\ UNCHANGED vars_share

NextChunk ==
    \/ \E token \in ChunkTokens : AddToken(token)
    \/ ChunkerFlush

SpecChunk == InitChunk /\ [][NextChunk]_vars

\* C14: with sentence_boundary = true, every non-nil value returned by
\* add_token ends in one of . ! ? and their CJK forms; no chunk is emitted
\* because the token cap was reached.
C14_ChunkEndsSentence ==
    (ck_op = "add_token" /\ ck_sentence_boundary /\ ck_ret.some) =>
        /\ ck_ret.text # <<>>
        /\ ck_ret.text[Len(ck_ret.text)] \in SentenceEnds

\* C15: flush() returns the concatenation, in order, of the tokens added
\* since the last emitted chunk and empties the buffer; with an empty
\* buffer (right after add_token returned a chunk or after a flush) it
\* returns nil.
C15_FlushReturnsLeftover ==
    [][ck_op' = "flush" /\ ck_calls' = ck_calls + 1 =>
          /\ ck_buffer' = <<>>
          /\ IF ck_pending = <<>>
             THEN ck_ret' = NoChunk
             ELSE ck_ret' = SomeChunk(Join(ck_pending))]_vars

\* a flush returned at least two leftover tokens joined in order, and the
\* buffer is empty
C15_Witness ==
    /\ ck_op = "flush"
    /\ ck_ret.some
    /\ ck_ret.text = <<119, 46, NL>>
    /\ ck_buffer = <<>>

\* C16: with sentence_boundary = false and max_tokens = k, add_token
\* returns nil for each of the first k-1 tokens after the last emission and
\* on the k-th returns the concatenation of exactly those k tokens in order.
C16_CapCutsAtK ==
    [][(ck_op' = "add_token" /\ ck_calls' = ck_calls + 1 /\ ~ck_sentence_boundary) =>
          /\ Len(ck_pending) < ck_max_tokens
          /\ IF Len(ck_pending) + 1 < ck_max_tokens
             THEN ck_ret' = NoChunk
             ELSE ck_ret' = SomeChunk(Join(ck_pending) \o ck_token')]_vars

\* the third token of a chunker with cap 3 and no sentence detection
\* returned the three tokens joined, a full stop among them
C16_Witness ==
    /\ ck_op = "add_token"
    /\ ~ck_sentence_boundary
    /\ ck_max_tokens = 3
    /\ ck_ret.some
    /\ ck_ret.text = <<119, 46, 119>>

(***************************************************************************)
(* generate_narration: run_llm and run_tts joined by tts_queue under       *)
(* asyncio.gather.  The LLM stream and the TTS stream are the environment: *)
(* each yields any item, ends, or raises.                                  *)
(***************************************************************************)
MaxTokens == 4
MaxFrag == 2
Tokens == {<<119>>, <<46>>, <<32>>}        \* "w", ".", " "

\* asyncio.Queue.get takes the most recently put item
queue_get_lifo(q) == [item |-> q[Len(q)], rest |-> SubSeq(q, 1, Len(q) - 1)]

\* asyncio.Queue.get: first in, first out
queue_get(q) == [item |-> Head(q), rest |-> Tail(q)]

\* tts_queue.put(block) for a chunk that is not empty after stripping
PutIfSpeakable(q, log, block) ==
    IF block # <<>> /\ Stripped(block) # <<>>
    THEN [q |-> Append(q, Len(log) + 1), log |-> Append(log, block)]
    ELSE [q |-> q, log |-> log]

InitPipe ==
    /\ IdleClean
    /\ IdleBuf
    /\ IdleOrch
    /\ IdlePipe
    /\ IdleChunk
    /\ IdleLlm
    /\ IdleSess
    /\ IdleTool
    /\ IdlePlay
    /\ IdleDown
    /\ IdleEv
    /\ IdleShare

\* one iteration of `async for token in stream_llm(...)`
LlmToken(token) ==
    /\ llm_pc = "streaming"
    /\ Len(generated_text_tokens) < MaxTokens
    /\ generated_text_tokens' = Append(generated_text_tokens, token)
    /\ LET r == add_token(chunker_buffer, token)
           p == PutIfSpeakable(tts_queue, put_log, r.chunk)
       IN /\ chunker_buffer' = r.buffer
          /\ tts_queue' = p.q
          /\ put_log' = p.log
    /\ UNCHANGED <<llm_pc, tts_pc, tts_cur, audio_buffer, audio_chunks, tts_finished,
                   gather_result>>
    /\ UNCHANGED <<vars_clean, vars_buf, vars_orch>>
    /\ UNCHANGED vars_chunk
    /\ UNCHANGED vars_llm
    /\ UNCHANGED vars_sess
    /\ UNCHANGED vars_tool
    /\ UNCHANGED vars_play
    /\ UNCHANGED vars_down
    /\ UNCHANGED vars_ev
    /\ UNCHANGED vars_share

\* the stream ends: flush the chunker, put the leftover, put the sentinel
LlmEnd ==
    /\ llm_pc = "streaming"
    /\ LET r == chunker_flush(chunker_buffer)
           p == PutIfSpeakable(tts_queue, put_log, r.chunk)
       IN /\ chunker_buffer' = r.buffer
          /\ tts_queue' = Append(p.q, 0)
          /\ put_log' = p.log
    /\ llm_pc' = "done"
    /\ UNCHANGED <<generated_text_tokens, tts_pc, tts_cur, audio_buffer, audio_chunks,
                   tts_finished, gather_result>>
    /\ UNCHANGED <<vars_clean, vars_buf, vars_orch>>
    /\ UNCHANGED vars_chunk
    /\ UNCHANGED vars_llm
    /\ UNCHANGED vars_sess
    /\ UNCHANGED vars_tool
    /\ UNCHANGED vars_play
    /\ UNCHANGED vars_down
    /\ UNCHANGED vars_ev
    /\ UNCHANGED vars_share

\* a failure of stream_llm that re-raises without the sentinel
LlmFailSilent ==
    /\ llm_pc = "streaming"
    /\ tts_queue' = tts_queue
    /\ llm_pc' = "failed"
    /\ UNCHANGED <<chunker_buffer, generated_text_tokens, put_log, tts_pc, tts_cur,
                   audio_buffer, audio_chunks, tts_finished, gather_result>>
    /\ UNCHANGED <<vars_clean, vars_buf, vars_orch>>
    /\ UNCHANGED vars_chunk
    /\ UNCHANGED vars_llm
    /\ UNCHANGED vars_sess
    /\ UNCHANGED vars_tool
    /\ UNCHANGED vars_play
    /\ UNCHANGED vars_down
    /\ UNCHANGED vars_ev
    /\ UNCHANGED vars_share

\* stream_llm raises: both except clauses put the sentinel and re-raise
LlmFail ==
    /\ llm_pc = "streaming"
    /\ tts_queue' = Append(tts_queue, 0)
    /\ llm_pc' = "failed"
    /\ UNCHANGED <<chunker_buffer, generated_text_tokens, put_log, tts_pc, tts_cur,
                   audio_buffer, audio_chunks, tts_finished, gather_result>>
    /\ UNCHANGED <<vars_clean, vars_buf, vars_orch>>
    /\ UNCHANGED vars_chunk
    /\ UNCHANGED vars_llm
    /\ UNCHANGED vars_sess
    /\ UNCHANGED vars_tool
    /\ UNCHANGED vars_play
    /\ UNCHANGED vars_down
    /\ UNCHANGED vars_ev
    /\ UNCHANGED vars_share

\* block = await tts_queue.get(); None breaks the loop
TtsGet ==
    /\ tts_pc = "waiting"
    /\ tts_queue # <<>>
    /\ LET g == queue_get(tts_queue)
       IN /\ tts_queue' = g.rest
          /\ IF g.item = 0
             THEN /\ tts_pc' = "done"
                  /\ UNCHANGED tts_cur
             ELSE /\ tts_pc' = "calling"
                  /\ tts_cur' = g.item
    /\ audio_buffer' = 0
    /\ UNCHANGED <<llm_pc, chunker_buffer, generated_text_tokens, put_log, audio_chunks,
                   tts_finished, gather_result>>
    /\ UNCHANGED <<vars_clean, vars_buf, vars_orch>>
    /\ UNCHANGED vars_chunk
    /\ UNCHANGED vars_llm
    /\ UNCHANGED vars_sess
    /\ UNCHANGED vars_tool
    /\ UNCHANGED vars_play
    /\ UNCHANGED vars_down
    /\ UNCHANGED vars_ev
    /\ UNCHANGED vars_share

\* one iteration of `async for audio_chunk in stream_tts(...)`
TtsFragment ==
    /\ tts_pc = "calling"
    /\ audio_buffer < MaxFrag
    /\ audio_buffer' = audio_buffer + 1
    /\ UNCHANGED <<llm_pc, chunker_buffer, generated_text_tokens, tts_queue, put_log,
                   tts_pc, tts_cur, audio_chunks, tts_finished, gather_result>>
    /\ UNCHANGED <<vars_clean, vars_buf, vars_orch>>
    /\ UNCHANGED vars_chunk
    /\ UNCHANGED vars_llm
    /\ UNCHANGED vars_sess
    /\ UNCHANGED vars_tool
    /\ UNCHANGED vars_play
    /\ UNCHANGED vars_down
    /\ UNCHANGED vars_ev
    /\ UNCHANGED vars_share

\* the TTS stream of the block ends: append its MP3 if there is any
TtsBlockDone ==
    /\ tts_pc = "calling"
    /\ audio_chunks' = IF audio_buffer > 0 THEN Append(audio_chunks, tts_cur)
                       ELSE audio_chunks
    /\ tts_finished' = tts_finished \cup {tts_cur}
    /\ tts_pc' = "waiting"
    /\ UNCHANGED <<llm_pc, chunker_buffer, generated_text_tokens, tts_queue, put_log,
                   tts_cur, audio_buffer, gather_result>>
    /\ UNCHANGED <<vars_clean, vars_buf, vars_orch>>
    /\ UNCHANGED vars_chunk
    /\ UNCHANGED vars_llm
    /\ UNCHANGED vars_sess
    /\ UNCHANGED vars_tool
    /\ UNCHANGED vars_play
    /\ UNCHANGED vars_down
    /\ UNCHANGED vars_ev
    /\ UNCHANGED vars_share

\* stream_tts raises: run_tts logs and re-raises, without touching the queue
TtsFail ==
    /\ tts_pc = "calling"
    /\ tts_pc' = "failed"
    /\ UNCHANGED <<llm_pc, chunker_buffer, generated_text_tokens, tts_queue, put_log,
                   tts_cur, audio_buffer, audio_chunks, tts_finished, gather_result>>
    /\ UNCHANGED <<vars_clean, vars_buf, vars_orch>>
    /\ UNCHANGED vars_chunk
    /\ UNCHANGED vars_llm
    /\ UNCHANGED vars_sess
    /\ UNCHANGED vars_tool
    /\ UNCHANGED vars_play
    /\ UNCHANGED vars_down
    /\ UNCHANGED vars_ev
    /\ UNCHANGED vars_share

\* asyncio.gather(run_llm(), run_tts()) propagates the first exception to
\* the caller at once; the other coroutine is not cancelled
GatherRaise ==
    /\ gather_result = "pending"
    /\ llm_pc = "failed" \/ tts_pc = "failed"
    /\ gather_result' = "raised"
    /\ UNCHANGED <<llm_pc, chunker_buffer, generated_text_tokens, tts_queue, put_log,
                   tts_pc, tts_cur, audio_buffer, audio_chunks, tts_finished>>
    /\ UNCHANGED <<vars_clean, vars_buf, vars_orch>>
    /\ UNCHANGED vars_chunk
    /\ UNCHANGED vars_llm
    /\ UNCHANGED vars_sess
    /\ UNCHANGED vars_tool
    /\ UNCHANGED vars_play
    /\ UNCHANGED vars_down
    /\ UNCHANGED vars_ev
    /\ UNCHANGED vars_share

\* both coroutines finished: return (full_text, full_audio)
GatherReturn ==
    /\ gather_result = "pending"
    /\ llm_pc = "done" /\ tts_pc = "done"
    /\ gather_result' = "returned"
    /\ UNCHANGED <<llm_pc, chunker_buffer, generated_text_tokens, tts_queue, put_log,
                   tts_pc, tts_cur, audio_buffer, audio_chunks, tts_finished>>
    /\ UNCHANGED <<vars_clean, vars_buf, vars_orch>>
    /\ UNCHANGED vars_chunk
    /\ UNCHANGED vars_llm
    /\ UNCHANGED vars_sess
    /\ UNCHANGED vars_tool
    /\ UNCHANGED vars_play
    /\ UNCHANGED vars_down
    /\ UNCHANGED vars_ev
    /\ UNCHANGED vars_share

NextPipe ==
    \/ \E token \in Tokens : LlmToken(token)
    \/ LlmEnd
    \/ LlmFail
    \/ TtsGet
    \/ TtsFragment
    \/ TtsBlockDone
    \/ TtsFail
    \/ GatherRaise
    \/ GatherReturn

SpecPipe == InitPipe /\ [][NextPipe]_vars

\* C4: within one request audio is produced in the order the chunks were
\* put on the TTS queue: when the TTS call for chunk j is running, the TTS
\* call of every chunk i < j has ended, and the appended audio is in chunk
\* order.
C4_AudioInQueueOrder ==
    /\ \A k \in 1..(Len(audio_chunks) - 1) : audio_chunks[k] < audio_chunks[k + 1]
    /\ tts_pc = "calling" =>
          /\ \A i \in 1..(tts_cur - 1) : i \in tts_finished
          /\ \A k \in 1..Len(audio_chunks) : audio_chunks[k] < tts_cur

\* C4 witness: the TTS call of a second chunk is running after the first
\* chunk's audio was appended.
C4_Witness ==
    /\ tts_pc = "calling"
    /\ tts_cur = 2
    /\ audio_chunks = <<1>>

\* C8: if either side of the pipeline fails, the other one is signalled to
\* stop through the queue sentinel and the error is propagated to the
\* caller: once the LLM producer has failed the sentinel is on the queue (or
\* already taken by the TTS side), and once the TTS side has failed and
\* gather has raised, the LLM producer streams no further token and puts no
\* further chunk.
C8_FailureStopsSibling ==
    [][/\ llm_pc = "failed" =>
            \/ \E k \in 1..Len(tts_queue) : tts_queue[k] = 0
            \/ tts_pc \in {"done", "failed"}
       /\ (tts_pc = "failed" /\ gather_result = "raised") =>
            /\ generated_text_tokens' = generated_text_tokens
            /\ put_log' = put_log
            /\ llm_pc' = llm_pc]_vars

(***************************************************************************)
(* run_pty_with_narration: the I/O loop, the background narration tasks    *)
(* (send_narration_async around MCPBridge.send_chunk), the semaphore and   *)
(* the audio player's queue.  The PTY, the child, the narration server and *)
(* the passing of time are the environment.                                *)
(***************************************************************************)
MaxTasks == 3
MaxBlobs == 2

TaskIds == 1..Len(tasks)

Running == {i \in TaskIds : tasks[i].st = "running"}
Waiting == {i \in TaskIds : tasks[i].st = "waiting"}
Failed == {i \in TaskIds : tasks[i].st \in {"failed", "timed_out", "raised"}}
Ended == {i \in TaskIds : tasks[i].st \in {"done", "failed", "timed_out", "raised"}}

\* an acquire that never blocks
sem_can_acquire_always(value, waiters) == TRUE

\* asyncio.Semaphore.acquire enters at once iff the semaphore is not locked:
\* a permit is left and nobody is queued for it
sem_can_acquire(value, waiters) == value > 0 /\ waiters = {}

\* an exit path that keeps the permit
sem_after_exit_leak(value, held) == value

\* leaving `async with narration_semaphore` releases the permit if held
sem_after_exit(value, held) == IF held THEN value + 1 ELSE value

\* a handler that lets errors of send_chunk escape the task
send_narration_async_reraise(event) ==
    IF event = "timeout" THEN "timed_out" ELSE "raised"

\* the except clauses of send_narration_async: TimeoutError and Exception
\* are logged and swallowed, the task ends normally
send_narration_async_outcome(event) ==
    IF event = "timeout" THEN "timed_out" ELSE "failed"

\* schedule_narration: create_task and track it; the loop does not await it
schedule_narration(ts) ==
    Append(ts, [st |-> "created", chunks |-> 0, final |-> FALSE])

InitOrch ==
    /\ IdleClean
    /\ IdleBuf
    /\ IdlePipe
    /\ IdleOrch
    /\ IdleChunk
    /\ IdleLlm
    /\ IdleSess
    /\ IdleTool
    /\ IdlePlay
    /\ IdleDown
    /\ IdleEv
    /\ IdleShare

\* the PTY read completes with data: mirror it to stdout, then buffer it
PtyRead ==
    /\ loop_pc = "running"
    /\ Len(tasks) < MaxTasks
    /\ buffered' = TRUE
    /\ mirrored_after_fail' = (mirrored_after_fail \/ Failed # {})
    /\ UNCHANGED <<loop_pc, child, pty_eof, tasks, sem_value, enqueued, played,
                   scheduled_after_fail>>
    /\ UNCHANGED <<vars_clean, vars_buf, vars_pipe>>
    /\ UNCHANGED vars_chunk
    /\ UNCHANGED vars_llm
    /\ UNCHANGED vars_sess
    /\ UNCHANGED vars_tool
    /\ UNCHANGED vars_play
    /\ UNCHANGED vars_down
    /\ UNCHANGED vars_ev
    /\ UNCHANGED vars_share

\* top of the loop with should_flush true: flush, clean_text, and schedule
\* a narration when text is left
LoopFlush(speakable) ==
    /\ loop_pc = "running"
    /\ buffered
    /\ buffered' = FALSE
    /\ tasks' = IF speakable THEN schedule_narration(tasks) ELSE tasks
    /\ scheduled_after_fail' = (scheduled_after_fail \/ (speakable /\ Failed # {}))
    /\ UNCHANGED <<loop_pc, child, pty_eof, sem_value, enqueued, played, mirrored_after_fail>>
    /\ UNCHANGED <<vars_clean, vars_buf, vars_pipe>>
    /\ UNCHANGED vars_chunk
    /\ UNCHANGED vars_llm
    /\ UNCHANGED vars_sess
    /\ UNCHANGED vars_tool
    /\ UNCHANGED vars_play
    /\ UNCHANGED vars_down
    /\ UNCHANGED vars_ev
    /\ UNCHANGED vars_share

ChildExits ==
    /\ child = "alive"
    /\ child' = "exited"
    /\ UNCHANGED <<loop_pc, pty_eof, buffered, tasks, sem_value, enqueued, played,
                   mirrored_after_fail, scheduled_after_fail>>
    /\ UNCHANGED <<vars_clean, vars_buf, vars_pipe>>
    /\ UNCHANGED vars_chunk
    /\ UNCHANGED vars_llm
    /\ UNCHANGED vars_sess
    /\ UNCHANGED vars_tool
    /\ UNCHANGED vars_play
    /\ UNCHANGED vars_down
    /\ UNCHANGED vars_ev
    /\ UNCHANGED vars_share

\* cmd_proc.poll() is not None: the loop drains the PTY, flushes the whole
\* buffer into one last narration, breaks and awaits the pending tasks
LoopBreak(speakable) ==
    /\ loop_pc = "running"
    /\ child = "exited"
    /\ loop_pc' = "gathering"
    /\ buffered' = FALSE
    /\ tasks' = IF buffered /\ speakable THEN schedule_narration(tasks) ELSE tasks
    /\ scheduled_after_fail' =
          (scheduled_after_fail \/ (buffered /\ speakable /\ Failed # {}))
    /\ UNCHANGED <<child, pty_eof, sem_value, enqueued, played, mirrored_after_fail>>
    /\ UNCHANGED <<vars_clean, vars_buf, vars_pipe>>
    /\ UNCHANGED vars_chunk
    /\ UNCHANGED vars_llm
    /\ UNCHANGED vars_sess
    /\ UNCHANGED vars_tool
    /\ UNCHANGED vars_play
    /\ UNCHANGED vars_down
    /\ UNCHANGED vars_ev
    /\ UNCHANGED vars_share

\* a PTY read returns EOF or raises OSError: the loop breaks; the finally
\* block flushes the buffer into one last narration and awaits the tasks
PtyEof(speakable) ==
    /\ loop_pc = "running"
    /\ pty_eof' = TRUE
    /\ loop_pc' = "gathering"
    /\ buffered' = FALSE
    /\ tasks' = IF buffered /\ speakable THEN schedule_narration(tasks) ELSE tasks
    /\ scheduled_after_fail' =
          (scheduled_after_fail \/ (buffered /\ speakable /\ Failed # {}))
    /\ UNCHANGED <<child, sem_value, enqueued, played, mirrored_after_fail>>
    /\ UNCHANGED <<vars_clean, vars_buf, vars_pipe>>
    /\ UNCHANGED vars_chunk
    /\ UNCHANGED vars_llm
    /\ UNCHANGED vars_sess
    /\ UNCHANGED vars_tool
    /\ UNCHANGED vars_play
    /\ UNCHANGED vars_down
    /\ UNCHANGED vars_ev
    /\ UNCHANGED vars_share

\* gather(*pending, return_exceptions=True) returns; the PTY is closed
LoopClose ==
    /\ loop_pc = "gathering"
    /\ Ended = TaskIds
    /\ loop_pc' = "closed"
    /\ UNCHANGED <<child, pty_eof, buffered, tasks, sem_value, enqueued, played,
                   mirrored_after_fail, scheduled_after_fail>>
    /\ UNCHANGED <<vars_clean, vars_buf, vars_pipe>>
    /\ UNCHANGED vars_chunk
    /\ UNCHANGED vars_llm
    /\ UNCHANGED vars_sess
    /\ UNCHANGED vars_tool
    /\ UNCHANGED vars_play
    /\ UNCHANGED vars_down
    /\ UNCHANGED vars_ev
    /\ UNCHANGED vars_share

\* a created task gets its first turn (tasks get theirs in creation order):
\* it enters asyncio.timeout and then the semaphore
TaskStart(i) ==
    /\ loop_pc # "closed"
    /\ tasks[i].st = "created"
    /\ \A j \in 1..(i - 1) : tasks[j].st # "created"
    /\ IF sem_can_acquire(sem_value, Waiting)
       THEN /\ tasks' = [tasks EXCEPT ![i].st = "running"]
            /\ sem_value' = sem_value - 1
       ELSE /\ tasks' = [tasks EXCEPT ![i].st = "waiting"]
            /\ UNCHANGED sem_value
    /\ UNCHANGED <<loop_pc, child, pty_eof, buffered, enqueued, played,
                   mirrored_after_fail, scheduled_after_fail>>
    /\ UNCHANGED <<vars_clean, vars_buf, vars_pipe>>
    /\ UNCHANGED vars_chunk
    /\ UNCHANGED vars_llm
    /\ UNCHANGED vars_sess
    /\ UNCHANGED vars_tool
    /\ UNCHANGED vars_play
    /\ UNCHANGED vars_down
    /\ UNCHANGED vars_ev
    /\ UNCHANGED vars_share

\* a released permit goes to the longest-waiting task
SemWake(i) ==
    /\ loop_pc # "closed"
    /\ tasks[i].st = "waiting"
    /\ \A j \in Waiting : i <= j
    /\ sem_can_acquire(sem_value, {})
    /\ tasks' = [tasks EXCEPT ![i].st = "running"]
    /\ sem_value' = sem_value - 1
    /\ UNCHANGED <<loop_pc, child, pty_eof, buffered, enqueued, played,
                   mirrored_after_fail, scheduled_after_fail>>
    /\ UNCHANGED <<vars_clean, vars_buf, vars_pipe>>
    /\ UNCHANGED vars_chunk
    /\ UNCHANGED vars_llm
    /\ UNCHANGED vars_sess
    /\ UNCHANGED vars_tool
    /\ UNCHANGED vars_play
    /\ UNCHANGED vars_down
    /\ UNCHANGED vars_ev
    /\ UNCHANGED vars_share

\* progress_handler receives a chunk notification that carries audio
Progress(i) ==
    /\ loop_pc # "closed"
    /\ tasks[i].st = "running"
    /\ Len(enqueued) < MaxBlobs
    /\ enqueued' = Append(enqueued, i)
    /\ tasks' = [tasks EXCEPT ![i].chunks = @ + 1]
    /\ UNCHANGED <<loop_pc, child, pty_eof, buffered, sem_value, played,
                   mirrored_after_fail, scheduled_after_fail>>
    /\ UNCHANGED <<vars_clean, vars_buf, vars_pipe>>
    /\ UNCHANGED vars_chunk
    /\ UNCHANGED vars_llm
    /\ UNCHANGED vars_sess
    /\ UNCHANGED vars_tool
    /\ UNCHANGED vars_play
    /\ UNCHANGED vars_down
    /\ UNCHANGED vars_ev
    /\ UNCHANGED vars_share

\* a return of call_tool that enqueues the final audio whatever was streamed
CallReturnPlaysFinal(i, kind) ==
    /\ loop_pc # "closed"
    /\ tasks[i].st = "running"
    /\ kind = "audio" => Len(enqueued) < MaxBlobs
    /\ LET play_final == kind = "audio"
       IN /\ enqueued' = IF play_final THEN Append(enqueued, i) ELSE enqueued
          /\ tasks' = [tasks EXCEPT ![i].st = "done", ![i].final = play_final]
    /\ sem_value' = sem_after_exit(sem_value, TRUE)
    /\ UNCHANGED <<loop_pc, child, pty_eof, buffered, played, mirrored_after_fail, scheduled_after_fail>>
    /\ UNCHANGED <<vars_clean, vars_buf, vars_pipe>>
    /\ UNCHANGED vars_chunk
    /\ UNCHANGED vars_llm
    /\ UNCHANGED vars_sess
    /\ UNCHANGED vars_tool
    /\ UNCHANGED vars_play
    /\ UNCHANGED vars_down
    /\ UNCHANGED vars_ev
    /\ UNCHANGED vars_share

\* call_tool returns; kind is what the response holds: "error", "audio"
\* (non-empty audio) or "empty"
CallReturn(i, kind) ==
    /\ loop_pc # "closed"
    /\ tasks[i].st = "running"
    /\ kind = "audio" => Len(enqueued) < MaxBlobs
    /\ LET play_final == kind = "audio" /\ tasks[i].chunks = 0
       IN /\ enqueued' = IF play_final THEN Append(enqueued, i) ELSE enqueued
          /\ tasks' = [tasks EXCEPT ![i].st = "done", ![i].final = play_final]
    /\ sem_value' = sem_after_exit(sem_value, TRUE)
    /\ UNCHANGED <<loop_pc, child, pty_eof, buffered, played, mirrored_after_fail, scheduled_after_fail>>
    /\ UNCHANGED <<vars_clean, vars_buf, vars_pipe>>
    /\ UNCHANGED vars_chunk
    /\ UNCHANGED vars_llm
    /\ UNCHANGED vars_sess
    /\ UNCHANGED vars_tool
    /\ UNCHANGED vars_play
    /\ UNCHANGED vars_down
    /\ UNCHANGED vars_ev
    /\ UNCHANGED vars_share

\* call_tool raises (ToolError or any other exception): send_chunk logs
\* and re-raises, send_narration_async handles it
CallRaise(i) ==
    /\ loop_pc # "closed"
    /\ tasks[i].st = "running"
    /\ tasks' = [tasks EXCEPT ![i].st = send_narration_async_outcome("error")]
    /\ sem_value' = sem_after_exit(sem_value, TRUE)
    /\ UNCHANGED <<loop_pc, child, pty_eof, buffered, enqueued, played,
                   mirrored_after_fail, scheduled_after_fail>>
    /\ UNCHANGED <<vars_clean, vars_buf, vars_pipe>>
    /\ UNCHANGED vars_chunk
    /\ UNCHANGED vars_llm
    /\ UNCHANGED vars_sess
    /\ UNCHANGED vars_tool
    /\ UNCHANGED vars_play
    /\ UNCHANGED vars_down
    /\ UNCHANGED vars_ev
    /\ UNCHANGED vars_share

\* NARRATION_TIMEOUT expires while the task waits for the semaphore or is
\* inside send_chunk: the task is cancelled at its await
Timeout(i) ==
    /\ loop_pc # "closed"
    /\ tasks[i].st \in {"waiting", "running"}
    /\ tasks' = [tasks EXCEPT ![i].st = send_narration_async_outcome("timeout")]
    /\ sem_value' = sem_after_exit(sem_value, tasks[i].st = "running")
    /\ UNCHANGED <<loop_pc, child, pty_eof, buffered, enqueued, played,
                   mirrored_after_fail, scheduled_after_fail>>
    /\ UNCHANGED <<vars_clean, vars_buf, vars_pipe>>
    /\ UNCHANGED vars_chunk
    /\ UNCHANGED vars_llm
    /\ UNCHANGED vars_sess
    /\ UNCHANGED vars_tool
    /\ UNCHANGED vars_play
    /\ UNCHANGED vars_down
    /\ UNCHANGED vars_ev
    /\ UNCHANGED vars_share

\* the playback worker takes the next blob from the audio queue
Play ==
    /\ played < Len(enqueued)
    /\ played' = played + 1
    /\ UNCHANGED <<loop_pc, child, pty_eof, buffered, tasks, sem_value, enqueued,
                   mirrored_after_fail, scheduled_after_fail>>
    /\ UNCHANGED <<vars_clean, vars_buf, vars_pipe>>
    /\ UNCHANGED vars_chunk
    /\ UNCHANGED vars_llm
    /\ UNCHANGED vars_sess
    /\ UNCHANGED vars_tool
    /\ UNCHANGED vars_play
    /\ UNCHANGED vars_down
    /\ UNCHANGED vars_ev
    /\ UNCHANGED vars_share

NextOrch ==
    \/ PtyRead
    \/ \E speakable \in BOOLEAN : LoopFlush(speakable)
    \/ ChildExits
    \/ \E speakable \in BOOLEAN : LoopBreak(speakable)
    \/ \E speakable \in BOOLEAN : PtyEof(speakable)
    \/ LoopClose
    \/ \E i \in TaskIds : TaskStart(i)
    \/ \E i \in TaskIds : SemWake(i)
    \/ \E i \in TaskIds : Progress(i)
    \/ \E i \in TaskIds, kind \in {"error", "audio", "empty"} : CallReturn(i, kind)
    \/ \E i \in TaskIds : CallRaise(i)
    \/ \E i \in TaskIds : Timeout(i)
    \/ Play

SpecOrch == InitOrch /\ [][NextOrch]_vars

Started(i) == tasks[i].st \in {"running", "done", "failed", "raised"} \/ tasks[i].chunks > 0

\* C5: with semaphore limit 2, for requests r1 scheduled before r2, r1
\* starts before r2 and every audio blob of r1 is enqueued on the player
\* before every blob of r2: the playback queue never holds a blob of a later
\* request in front of a blob of an earlier one.
C5_CrossRequestOrder ==
    /\ \A r1, r2 \in TaskIds :
          (r1 < r2 /\ Started(r2)) => tasks[r1].st \notin {"created", "waiting"}
    /\ \A k, l \in 1..Len(enqueued) : k < l => enqueued[k] <= enqueued[l]

\* C6: at every moment at most 2 narration tasks are executing
\* bridge.send_chunk, however many narrations were scheduled.
C6_AtMostTwoInFlight ==
    Cardinality(Running) <= SEM_LIMIT

\* C6 witness: three narrations are scheduled, two are inside send_chunk and
\* the third waits for the semaphore.
C6_Witness ==
    /\ Len(tasks) >= 3
    /\ Cardinality(Running) = SEM_LIMIT
    /\ Waiting # {}

\* C7: a narration call that raises or times out never stops the I/O loop:
\* the failure ends inside its own task (logged, not re-raised), and while
\* the child is alive the loop keeps running, so PTY output is still
\* mirrored and later flushes still schedule narrations.
C7_FailureKeepsLoopRunning ==
    /\ \A i \in TaskIds : tasks[i].st # "raised"
    /\ (Failed # {} /\ child = "alive" /\ ~pty_eof) => loop_pc = "running"
    /\ (Failed # {} /\ loop_pc = "running" /\ Len(tasks) < MaxTasks) =>
          /\ ENABLED PtyRead
          /\ buffered => ENABLED LoopFlush(TRUE)

\* C7 witness: one narration raised and another timed out, and afterwards
\* PTY output was mirrored and a new narration was scheduled while the loop
\* is still running.
C7_Witness ==
    /\ \E i \in TaskIds : tasks[i].st = "failed"
    /\ \E i \in TaskIds : tasks[i].st = "timed_out"
    /\ mirrored_after_fail
    /\ scheduled_after_fail
    /\ loop_pc = "running"

BlobsOf(q, i) == Cardinality({k \in 1..Len(q) : q[k] = i})

\* C9 as stated: no audio blob of a timed-out request is ever played.
C9_NoBlobOfTimedOutPlayed ==
    \A i \in TaskIds :
        tasks[i].st = "timed_out" => \A k \in 1..played : enqueued[k] # i

\* What does hold of C9: a timed-out narration task never enqueues its
\* final audio blob and holds no semaphore permit, so later requests proceed
\* (a waiting request gets the permit whenever fewer than 2 are in flight);
\* the only blobs of it in the queue are the chunks that progress
\* notifications enqueued before the timeout.
C9_TimedOutAbandoned ==
    /\ sem_value = SEM_LIMIT - Cardinality(Running)
    /\ \A i \in TaskIds :
          tasks[i].st = "timed_out" =>
              /\ ~tasks[i].final
              /\ BlobsOf(enqueued, i) = tasks[i].chunks
              /\ (Waiting # {} /\ Cardinality(Running) < SEM_LIMIT /\ loop_pc # "closed")
                     => \E j \in Waiting : ENABLED SemWake(j)

\* C9 witness: a request timed out inside send_chunk after one of its
\* progress chunks was enqueued, and a later request ran to completion and
\* enqueued its audio.
C9_Witness ==
    \E i, j \in TaskIds :
        /\ i < j
        /\ tasks[i].st = "timed_out" /\ tasks[i].chunks > 0
        /\ tasks[j].st = "done" /\ tasks[j].final
        /\ enqueued = <<i, j>>

(***************************************************************************)
(* narrator_mcp/llm.py: truncate_to_complete_sentence and the end of       *)
(* stream_llm.  The character class of its regular expressions is the one  *)
(* written in the file: U+201E, A-umlaut, C-cedilla, O-circumflex, the     *)
(* masculine ordinal, A-ring, u-umlaut, and . ! ?                          *)
(***************************************************************************)
LlmSentenceEnds == {8222, 196, 199, 212, 186, 197, 252, 46, 33, 63}

\* sentence_end_re.search(text): '[...]\s*$'
LlmEndsSentence(text) ==
    \E i \in 1..Len(text) :
        /\ text[i] \in LlmSentenceEnds
        /\ \A j \in (i + 1)..Len(text) : text[j] \in Whitespace

\* matches[-1].end() of sentence_end_pattern.finditer(text), 0 when no match
LastSentenceEnd(text) ==
    LET hits == {i \in 1..Len(text) : text[i] \in LlmSentenceEnds}
    IN IF hits = {} THEN 0 ELSE CHOOSE i \in hits : \A j \in hits : i >= j

\* str.rstrip()
RECURSIVE RStrip(_)
RStrip(text) ==
    IF text # <<>> /\ text[Len(text)] \in Whitespace
    THEN RStrip(SubSeq(text, 1, Len(text) - 1))
    ELSE text

\* a truncation that always returns its argument
truncate_identity(text) == text

truncate_to_complete_sentence(text) ==
    IF text = <<>> THEN text
    ELSE IF LlmEndsSentence(text) THEN text
    ELSE LET e == LastSentenceEnd(text)
             truncated == Strip(SubSeq(text, 1, e), Whitespace)
         IN IF e > 0 /\ Len(truncated) >= 3 THEN truncated ELSE text

\* stream_llm.is_last_sentence_complete
is_last_sentence_complete(text) ==
    IF text = <<>> THEN TRUE
    ELSE IF LlmEndsSentence(text) THEN TRUE
    ELSE IF LastSentenceEnd(text) = 0 THEN FALSE
    ELSE LastSentenceEnd(text) = Len(RStrip(text))

(***************************************************************************)
(* truncate_to_complete_sentence on its own: s is drawn at Init.           *)
(***************************************************************************)
MaxText == 4
TextAlphabet == {97, 46, 63, 32, 252, 12290}     \* a . ? space u-umlaut and the CJK full stop

InitTrunc ==
    /\ IdleClean
    /\ IdleBuf
    /\ IdlePipe
    /\ IdleOrch
    /\ IdleChunk
    /\ IdleSess
    /\ IdleTool
    /\ IdlePlay
    /\ IdleDown
    /\ IdleEv
    /\ IdleShare
    /\ sl_pc = "first"
    /\ sl_full = <<>>
    /\ sl_original = <<>>
    /\ sl_yielded = <<>>
    /\ sl_finish = "none"
    /\ sl_retry = 0
    /\ sl_ctext = <<>>
    /\ sl_cbuf = <<>>
    /\ tr_text \in StringsUpTo(TextAlphabet, MaxText)
    /\ tr_result = <<>>
    /\ tr_called = FALSE

Truncate ==
    /\ ~tr_called
    /\ tr_result' = truncate_to_complete_sentence(tr_text)
    /\ tr_called' = TRUE
    /\ UNCHANGED <<tr_text, sl_pc, sl_full, sl_original, sl_yielded, sl_finish, sl_retry,
                   sl_ctext, sl_cbuf>>
    /\ UNCHANGED <<vars_clean, vars_buf, vars_pipe, vars_orch, vars_chunk>>
    /\ UNCHANGED vars_sess
    /\ UNCHANGED vars_tool
    /\ UNCHANGED vars_play
    /\ UNCHANGED vars_down
    /\ UNCHANGED vars_ev
    /\ UNCHANGED vars_share

NextTrunc == Truncate

SpecTrunc == InitTrunc /\ [][NextTrunc]_vars

\* the prefixes of s that end in sentence punctuation, by their length
SentencePrefixes(s) == {k \in 1..Len(s) : s[k] \in SentenceEnds}

\* the function the specification describes
TruncateAsSpecified(s) ==
    IF s # <<>> /\ s[Len(s)] \in SentenceEnds THEN s
    ELSE LET ks == SentencePrefixes(s)
             k == IF ks = {} THEN 0 ELSE CHOOSE x \in ks : \A y \in ks : y <= x
         IN IF k >= 3 THEN SubSeq(s, 1, k) ELSE s

\* C17: truncate_to_complete_sentence(s) returns s unchanged when s ends in
\* sentence punctuation (. ! ? and their CJK forms); otherwise the longest
\* prefix of s ending in sentence punctuation if that prefix has length >= 3;
\* otherwise s.
C17_TruncateAsSpecified ==
    tr_called => tr_result = TruncateAsSpecified(tr_text)

(***************************************************************************)
(* stream_llm: the first completion stream, up to MAX_RETRIES continuation *)
(* requests, and the fallback truncation.  The LLM is the environment:     *)
(* each stream yields any content deltas and ends with any finish reason,  *)
(* or fails.                                                               *)
(***************************************************************************)
MAX_RETRIES == 2
MaxStream == 4
StreamTokens == {<<97>>, <<46>>, <<97, 46>>, <<32>>}     \* "a", ".", "a.", " "
FinishReasons == {"none", "stop", "length"}

StartsWith(s, p) == Len(p) <= Len(s) /\ SubSeq(s, 1, Len(p)) = p

\* a while loop without the retry limit
loop_or_finish_unlimited(full, finish, retry) ==
    IF finish = "length" /\ ~is_last_sentence_complete(full)
    THEN [pc |-> "cont", retry |-> retry + 1, full |-> full]
    ELSE [pc |-> "done", retry |-> retry,
          full |-> IF ~LlmEndsSentence(full)
                   THEN truncate_to_complete_sentence(full) ELSE full]

\* from the test of the while loop on: either the next continuation request
\* is sent, or the loop is left and the fallback truncation is applied to
\* full_response
loop_or_finish(full, finish, retry) ==
    IF finish = "length" /\ ~is_last_sentence_complete(full) /\ retry < MAX_RETRIES
    THEN [pc |-> "cont", retry |-> retry + 1, full |-> full]
    ELSE [pc |-> "done", retry |-> retry,
          full |-> IF ~LlmEndsSentence(full)
                   THEN truncate_to_complete_sentence(full) ELSE full]

InitLlm ==
    /\ IdleClean
    /\ IdleBuf
    /\ IdlePipe
    /\ IdleOrch
    /\ IdleChunk
    /\ IdleLlm
    /\ IdleSess
    /\ IdleTool
    /\ IdlePlay
    /\ IdleDown
    /\ IdleEv
    /\ IdleShare

\* a content delta of the first stream
FirstChunk(content) ==
    /\ sl_pc = "first"
    /\ Len(sl_full) + Len(content) <= MaxStream
    /\ sl_full' = sl_full \o content
    /\ sl_yielded' = sl_yielded \o content
    /\ UNCHANGED <<sl_pc, sl_original, sl_finish, sl_retry, sl_ctext, sl_cbuf>>
    /\ UNCHANGED <<tr_text, tr_result, tr_called>>
    /\ UNCHANGED <<vars_clean, vars_buf, vars_pipe, vars_orch, vars_chunk>>
    /\ UNCHANGED vars_sess
    /\ UNCHANGED vars_tool
    /\ UNCHANGED vars_play
    /\ UNCHANGED vars_down
    /\ UNCHANGED vars_ev
    /\ UNCHANGED vars_share

\* the first stream ends
FirstEnd(reason) ==
    /\ sl_pc = "first"
    /\ sl_finish' = reason
    /\ IF sl_full = <<>>
       THEN /\ sl_pc' = "done"
            /\ UNCHANGED <<sl_full, sl_original, sl_retry>>
       ELSE LET r == loop_or_finish(sl_full, reason, sl_retry)
            IN /\ sl_pc' = r.pc
               /\ sl_retry' = r.retry
               /\ sl_full' = r.full
               /\ sl_original' = sl_full
    /\ sl_ctext' = <<>>
    /\ sl_cbuf' = <<>>
    /\ UNCHANGED sl_yielded
    /\ UNCHANGED <<tr_text, tr_result, tr_called>>
    /\ UNCHANGED <<vars_clean, vars_buf, vars_pipe, vars_orch, vars_chunk>>
    /\ UNCHANGED vars_sess
    /\ UNCHANGED vars_tool
    /\ UNCHANGED vars_play
    /\ UNCHANGED vars_down
    /\ UNCHANGED vars_ev
    /\ UNCHANGED vars_share

\* a content delta of a continuation stream
ContChunk(content) ==
    /\ sl_pc = "cont"
    /\ Len(sl_cbuf) + Len(content) <= MaxStream
    /\ Len(sl_full) + Len(content) <= MaxStream
    /\ LET cbuf1 == sl_cbuf \o content
           new_content == SubSeq(cbuf1, Len(sl_original) + 1, Len(cbuf1))
           to_yield == IF StartsWith(cbuf1, sl_original)
                       THEN IF Len(new_content) > Len(sl_ctext)
                            THEN SubSeq(new_content, Len(sl_ctext) + 1, Len(new_content))
                            ELSE <<>>
                       ELSE content
       IN /\ sl_cbuf' = cbuf1
          /\ sl_ctext' = sl_ctext \o to_yield
          /\ sl_full' = sl_full \o to_yield
          /\ sl_yielded' = sl_yielded \o to_yield
    /\ UNCHANGED <<sl_pc, sl_original, sl_finish, sl_retry>>
    /\ UNCHANGED <<tr_text, tr_result, tr_called>>
    /\ UNCHANGED <<vars_clean, vars_buf, vars_pipe, vars_orch, vars_chunk>>
    /\ UNCHANGED vars_sess
    /\ UNCHANGED vars_tool
    /\ UNCHANGED vars_play
    /\ UNCHANGED vars_down
    /\ UNCHANGED vars_ev
    /\ UNCHANGED vars_share

\* a continuation stream ends
ContEnd(reason) ==
    /\ sl_pc = "cont"
    /\ LET finish1 == IF sl_ctext # <<>> THEN reason ELSE sl_finish
           leave == \/ sl_ctext = <<>>
                    \/ is_last_sentence_complete(sl_full)
                    \/ reason # "length"
           r == IF leave THEN loop_or_finish(sl_full, "none", MAX_RETRIES)
                ELSE loop_or_finish(sl_full, finish1, sl_retry)
       IN /\ sl_finish' = finish1
          /\ sl_pc' = r.pc
          /\ sl_retry' = IF leave THEN sl_retry ELSE r.retry
          /\ sl_full' = r.full
    /\ sl_ctext' = <<>>
    /\ sl_cbuf' = <<>>
    /\ UNCHANGED <<sl_original, sl_yielded>>
    /\ UNCHANGED <<tr_text, tr_result, tr_called>>
    /\ UNCHANGED <<vars_clean, vars_buf, vars_pipe, vars_orch, vars_chunk>>
    /\ UNCHANGED vars_sess
    /\ UNCHANGED vars_tool
    /\ UNCHANGED vars_play
    /\ UNCHANGED vars_down
    /\ UNCHANGED vars_ev
    /\ UNCHANGED vars_share

\* the API call or a stream raises
StreamRaise ==
    /\ sl_pc \in {"first", "cont"}
    /\ sl_pc' = "raised"
    /\ UNCHANGED <<sl_full, sl_original, sl_yielded, sl_finish, sl_retry, sl_ctext, sl_cbuf>>
    /\ UNCHANGED <<tr_text, tr_result, tr_called>>
    /\ UNCHANGED <<vars_clean, vars_buf, vars_pipe, vars_orch, vars_chunk>>
    /\ UNCHANGED vars_sess
    /\ UNCHANGED vars_tool
    /\ UNCHANGED vars_play
    /\ UNCHANGED vars_down
    /\ UNCHANGED vars_ev
    /\ UNCHANGED vars_share

NextLlm ==
    \/ \E content \in StreamTokens : FirstChunk(content)
    \/ \E reason \in FinishReasons : FirstEnd(reason)
    \/ \E content \in StreamTokens : ContChunk(content)
    \/ \E reason \in FinishReasons : ContEnd(reason)
    \/ StreamRaise

SpecLlm == InitLlm /\ [][NextLlm]_vars

\* C18: when the LLM stopped at its token cap and the continuations did not
\* reach a sentence boundary, the text delivered by the producer (the
\* tokens stream_llm yields) is the text after the fallback truncation:
\* trimmed of its trailing fragment when a complete sentence of at least 3
\* characters precedes it, unchanged otherwise.
C18_DeliveredTextTrimmed ==
    (sl_pc = "done" /\ sl_retry > 0 /\ ~LlmEndsSentence(sl_yielded)) =>
        sl_yielded = sl_full

(***************************************************************************)
(* narrator-mcp/server.py: the configure tool on the one process-local     *)
(* Session.  API keys are strings of code points.                          *)
(***************************************************************************)
MaxConfig == 2

K_SK == <<115, 107, 45>>                                           \* "sk-"
K_EL == <<101, 108, 45, 120>>                                      \* "el-x"
K_EL_UPPER == <<69, 76, 45, 120>>                                  \* "EL-x"
K_ELEVENLABS == <<101, 108, 101, 118, 101, 110, 108, 97, 98, 115, 95>>   \* "elevenlabs_"
P_ELEVENLABS == <<101, 108, 101, 118, 101, 110, 108, 97, 98, 115, 95>>   \* the prefix "elevenlabs_"
P_EL == <<101, 108, 45>>                                           \* the prefix "el-"

LlmKeys == {<<>>, K_SK, K_EL, K_EL_UPPER}
TtsKeys == {K_SK, K_ELEVENLABS}
Providers == {"openai", "elevenlabs"}

\* the optional plain arguments of one call: none, or one of two groups of
\* fields, all set to the same value
PlainArgs ==
    {[f \in PlainFields |-> IF f \in g THEN Given(v) ELSE Absent] :
        g \in {{}, {"llm_model", "voice"}, {"mode", "character", "base_url", "default_headers"}},
        v \in {1, 2}}

\* str.lower()
Lower(s) == [i \in 1..Len(s) |-> IF 65 <= s[i] /\ s[i] <= 90 THEN s[i] + 32 ELSE s[i]]

\* a detection that compares the key as it is written
detect_tts_provider_exact(api_key) ==
    IF StartsWith(api_key, P_ELEVENLABS) \/ StartsWith(api_key, P_EL)
    THEN "elevenlabs" ELSE "openai"

\* narrator_mcp/tts.py detect_tts_provider
detect_tts_provider(api_key) ==
    LET lowered == Lower(api_key)
    IN IF StartsWith(lowered, P_ELEVENLABS) \/ StartsWith(lowered, P_EL)
       THEN "elevenlabs" ELSE "openai"

\* the Session after configure(**args)
configure(s, args) ==
    LET tts_key == IF args.tts_api_key # Absent THEN args.tts_api_key
                   ELSE Given(args.llm_api_key)
    IN [llm_api_key |-> Given(args.llm_api_key),
        tts_api_key |-> tts_key,
        tts_provider |-> IF args.tts_provider # Absent THEN args.tts_provider
                         ELSE IF tts_key[1] # <<>>
                              THEN Given(detect_tts_provider(tts_key[1]))
                              ELSE Absent,
        plain |-> [f \in PlainFields |->
                      IF args.plain[f] # Absent THEN args.plain[f][1] ELSE s.plain[f]]]

InitSess ==
    /\ IdleClean
    /\ IdleBuf
    /\ IdlePipe
    /\ IdleOrch
    /\ IdleChunk
    /\ IdleLlm
    /\ IdleSess
    /\ IdlePlay
    /\ IdleDown
    /\ IdleEv
    /\ IdleShare
    /\ env_openai \in {Absent, Given(K_SK)}
    /\ env_eleven \in {Absent, Given(K_ELEVENLABS)}
    /\ configured = FALSE
    /\ tool_ret = NoRet
    /\ requests = 0
    /\ status_ret = NoStatus

Configure(args) ==
    /\ sess_calls < MaxConfig
    /\ session' = configure(session, args)
    /\ cfg_args' = args
    /\ explicit_provider' = IF args.tts_provider # Absent THEN args.tts_provider
                            ELSE explicit_provider
    /\ sess_op' = "configure"
    /\ sess_calls' = sess_calls + 1
    /\ UNCHANGED <<vars_clean, vars_buf, vars_pipe, vars_orch, vars_chunk, vars_llm>>
    /\ UNCHANGED vars_play
    /\ UNCHANGED vars_down
    /\ UNCHANGED vars_ev
    /\ UNCHANGED vars_share
    /\ configured' = TRUE
    /\ UNCHANGED <<env_openai, env_eleven, tool_ret, requests, status_ret>>

\* truthiness of an Optional[str]: None and '' are falsy
StrTruthy(v) == v # Absent /\ v[1] # <<>>

\* a or b for Optional[str] values
StrOr(a, b) == IF StrTruthy(a) THEN a ELSE b

Prompts == {<<>>, <<32>>, <<97>>}        \* "", " ", "a"

\* server.py narrate(prompt): how the call ends; "generated" stands for
\* reaching generate_narration, which makes the LLM and TTS requests
narrate(s, prompt) ==
    IF prompt = <<>> THEN [kind |-> "raised", error |-> "Missing prompt parameter"]
    ELSE IF ~StrTruthy(s.llm_api_key) THEN [kind |-> "raised", error |-> "Not configured"]
    ELSE IF ~StrTruthy(s.tts_api_key) THEN [kind |-> "raised", error |-> "Not configured"]
    ELSE [kind |-> "generated", error |-> ""]

\* app.py narrate_text(prompt, llm_api_key=key, tts_provider=provider), the
\* other optional arguments left out
narrate_text(s, prompt, key, provider, openai_env, eleven_env) ==
    LET final_llm_api_key == StrOr(key, StrOr(s.llm_api_key, openai_env))
        tts_provider_value == IF provider # Absent THEN provider ELSE s.tts_provider
        final_tts_api_key == IF tts_provider_value = Given("elevenlabs")
                             THEN StrOr(eleven_env, s.tts_api_key)
                             ELSE StrOr(s.tts_api_key, final_llm_api_key)
    IN IF Strip(prompt, Whitespace) = <<>>
       THEN [kind |-> "returned_error", error |-> "Please enter some text to narrate."]
       ELSE IF ~StrTruthy(final_llm_api_key)
       THEN [kind |-> "returned_error", error |-> "OPENAI_API_KEY not provided"]
       ELSE IF tts_provider_value = Given("elevenlabs") /\ ~StrTruthy(final_tts_api_key)
       THEN [kind |-> "returned_error", error |-> "ELEVENLABS_API_KEY not provided"]
       ELSE [kind |-> "generated", error |-> ""]

\* the keys of the default_headers dict numbered v (0 is None); the dicts 1
\* and 2 have the same key and different values
HeaderKeys(v) == IF v = 0 THEN {} ELSE {"HTTP-Referer"}

STATUS_DEFAULT_CHARACTER == 100      \* the label "default"

\* the "session" part of the status; default_headers_keys is there only when
\* the headers are truthy
status_session(s) ==
    IF s.plain["default_headers"] # 0
    THEN [model |-> s.plain["llm_model"],
          voice |-> s.plain["voice"],
          mode |-> s.plain["mode"],
          character |-> IF s.plain["character"] = 0 THEN STATUS_DEFAULT_CHARACTER
                        ELSE s.plain["character"],
          base_url |-> s.plain["base_url"],
          has_default_headers |-> TRUE,
          tts_provider |-> IF s.tts_provider # Absent THEN s.tts_provider[1]
                           ELSE "auto-detect",
          default_headers_keys |-> HeaderKeys(s.plain["default_headers"])]
    ELSE [model |-> s.plain["llm_model"],
          voice |-> s.plain["voice"],
          mode |-> s.plain["mode"],
          character |-> IF s.plain["character"] = 0 THEN STATUS_DEFAULT_CHARACTER
                        ELSE s.plain["character"],
          base_url |-> s.plain["base_url"],
          has_default_headers |-> FALSE,
          tts_provider |-> IF s.tts_provider # Absent THEN s.tts_provider[1]
                           ELSE "auto-detect"]

\* a status that also reports the values of the default headers
get_config_status_leaky(s) ==
    [has_api_key |-> s.llm_api_key # Absent,
     has_tts_api_key |-> s.tts_api_key # Absent,
     is_configured |-> s.llm_api_key # Absent /\ s.tts_api_key # Absent,
     session |-> status_session(s),
     default_headers |-> s.plain["default_headers"]]

\* get_config_status: the status dictionary that is serialised
get_config_status(s) ==
    [has_api_key |-> s.llm_api_key # Absent,
     has_tts_api_key |-> s.tts_api_key # Absent,
     is_configured |-> s.llm_api_key # Absent /\ s.tts_api_key # Absent,
     session |-> status_session(s)]

Narrate(prompt) ==
    /\ sess_calls < MaxConfig
    /\ LET r == narrate(session, prompt)
       IN /\ tool_ret' = r
          /\ requests' = IF r.kind = "generated" THEN requests + 1 ELSE requests
    /\ sess_op' = "narrate"
    /\ sess_calls' = sess_calls + 1
    /\ UNCHANGED <<session, cfg_args, explicit_provider>>
    /\ UNCHANGED <<env_openai, env_eleven, configured, status_ret>>
    /\ UNCHANGED <<vars_clean, vars_buf, vars_pipe, vars_orch, vars_chunk, vars_llm>>
    /\ UNCHANGED vars_play
    /\ UNCHANGED vars_down
    /\ UNCHANGED vars_ev
    /\ UNCHANGED vars_share

NarrateText(prompt, key, provider) ==
    /\ sess_calls < MaxConfig
    /\ LET r == narrate_text(session, prompt, key, provider, env_openai, env_eleven)
       IN /\ tool_ret' = r
          /\ requests' = IF r.kind = "generated" THEN requests + 1 ELSE requests
    /\ sess_op' = "narrate_text"
    /\ sess_calls' = sess_calls + 1
    /\ UNCHANGED <<session, cfg_args, explicit_provider>>
    /\ UNCHANGED <<env_openai, env_eleven, configured, status_ret>>
    /\ UNCHANGED <<vars_clean, vars_buf, vars_pipe, vars_orch, vars_chunk, vars_llm>>
    /\ UNCHANGED vars_play
    /\ UNCHANGED vars_down
    /\ UNCHANGED vars_ev
    /\ UNCHANGED vars_share

GetConfigStatus ==
    /\ sess_calls < MaxConfig
    /\ status_ret' = [called |-> TRUE, value |-> get_config_status(session)]
    /\ sess_op' = "get_config_status"
    /\ sess_calls' = sess_calls + 1
    /\ UNCHANGED <<session, cfg_args, explicit_provider>>
    /\ UNCHANGED <<env_openai, env_eleven, configured, tool_ret, requests>>
    /\ UNCHANGED <<vars_clean, vars_buf, vars_pipe, vars_orch, vars_chunk, vars_llm>>
    /\ UNCHANGED vars_play
    /\ UNCHANGED vars_down
    /\ UNCHANGED vars_ev
    /\ UNCHANGED vars_share

NextSess ==
    \/ \E k \in LlmKeys, tk \in {Absent} \cup {Given(x) : x \in TtsKeys},
          tp \in {Absent} \cup {Given(x) : x \in Providers}, pl \in PlainArgs :
           Configure([llm_api_key |-> k, tts_api_key |-> tk, tts_provider |-> tp, plain |-> pl])
    \/ \E prompt \in Prompts : Narrate(prompt)
    \/ \E prompt \in Prompts, key \in {Absent, Given(K_SK)},
          provider \in {Absent, Given("elevenlabs")} : NarrateText(prompt, key, provider)
    \/ GetConfigStatus

SpecSess == InitSess /\ [][NextSess]_vars

\* the last call was a configure that omitted tts_api_key and tts_provider
OmittedTts ==
    /\ sess_op = "configure"
    /\ cfg_args.tts_api_key = Absent
    /\ cfg_args.tts_provider = Absent

\* C19 as stated: after a configure call that omits tts_api_key and
\* tts_provider, tts_api_key equals the given llm_api_key and tts_provider
\* is elevenlabs if that key begins with elevenlabs_ or el-, openai
\* otherwise.
C19_ProviderFromPrefix ==
    OmittedTts =>
        /\ session.tts_api_key = Given(cfg_args.llm_api_key)
        /\ session.tts_provider =
              IF \/ StartsWith(cfg_args.llm_api_key, P_ELEVENLABS)
                 \/ StartsWith(cfg_args.llm_api_key, P_EL)
              THEN Given("elevenlabs") ELSE Given("openai")

\* C19 amended: after such a call tts_api_key equals the given llm_api_key;
\* tts_provider is unset when that key is the empty string, elevenlabs when
\* the key begins with elevenlabs_ or el- in any letter case, and openai
\* otherwise.
C19_ProviderFromLoweredPrefix ==
    OmittedTts =>
        /\ session.tts_api_key = Given(cfg_args.llm_api_key)
        /\ session.tts_provider =
              IF cfg_args.llm_api_key = <<>> THEN Absent
              ELSE IF \E p \in {P_ELEVENLABS, P_EL} :
                         /\ Len(p) <= Len(cfg_args.llm_api_key)
                         /\ \A i \in 1..Len(p) :
                               cfg_args.llm_api_key[i] \in {p[i], p[i] - 32}
              THEN Given("elevenlabs") ELSE Given("openai")

\* a configure call with the key "EL-x" alone made the provider elevenlabs
C19_Witness ==
    /\ OmittedTts
    /\ cfg_args.llm_api_key = K_EL_UPPER
    /\ session.tts_api_key = Given(K_EL_UPPER)
    /\ session.tts_provider = Given("elevenlabs")

\* C20: once tts_provider has been set explicitly by a configure call, a
\* later configure call that omits tts_provider does not change it.
C20_ExplicitProviderKept ==
    [][(sess_op' = "configure" /\ sess_calls' = sess_calls + 1
          /\ cfg_args'.tts_provider = Absent /\ explicit_provider # Absent) =>
          session'.tts_provider = explicit_provider]_vars

\* C21: a narrate or narrate_text call made before any configure call
\* fails with a "Not configured" error surfaced to the caller and makes no
\* LLM or TTS request.
C21_NotConfiguredBeforeConfigure ==
    (sess_op \in {"narrate", "narrate_text"} /\ ~configured) =>
        /\ tool_ret.kind = "raised"
        /\ tool_ret.error = "Not configured"
        /\ requests = 0

\* the sessions that differ from s only in the values of its secrets: the
\* keys that are present and the values of the default headers
SecretSiblings(s) ==
    {[s EXCEPT !.llm_api_key = k, !.tts_api_key = tk,
               !.plain = [s.plain EXCEPT !["default_headers"] = h]] :
        k \in IF s.llm_api_key = Absent THEN {Absent} ELSE {Given(x) : x \in LlmKeys},
        tk \in IF s.tts_api_key = Absent THEN {Absent}
               ELSE {Given(x) : x \in LlmKeys \cup TtsKeys},
        h \in IF s.plain["default_headers"] = 0 THEN {0} ELSE {1, 2}}

\* C22: what get_config_status returns does not depend on llm_api_key,
\* tts_api_key or a default-header value: every session that differs from
\* the current one only in those secret values has the identical status.
C22_StatusHidesSecrets ==
    sess_op = "get_config_status" =>
        \A s2 \in SecretSiblings(session) : get_config_status(s2) = status_ret.value

\* the status of a session that holds both keys and default headers was
\* returned
C22_Witness ==
    /\ sess_op = "get_config_status"
    /\ status_ret.called
    /\ session.llm_api_key = Given(K_SK)
    /\ session.tts_api_key = Given(K_ELEVENLABS)
    /\ session.plain["default_headers"] = 2
    /\ status_ret.value.session.has_default_headers
    /\ status_ret.value.is_configured

\* ---------------------------------------------------------------------
\* The streaming audio player (audio_player.py)
\* ---------------------------------------------------------------------

MaxChunks == 2       \* add_chunk calls that put a blob on the queue
MaxWait == 3         \* seconds the clock of a waiting call may reach

JOIN_TIMEOUT == 2    \* playback_thread.join(timeout=2.0)
SENTINEL == 0        \* the None put on the queue by stop()
Timeouts == {None, 1}

RangeOf(s) == {s[i] : i \in 1..Len(s)}

\* a playback thread that has ended; its `finally` has closed the stream
DeadWorker == [NewWorker EXCEPT !.pc = "dead"]

\* Thread.is_alive() of a playback thread
is_alive(wk) == wk.pc \notin {"unborn", "dead"}

\* start() without the is_playing test
start_returns_early_unchecked(available, playing) == ~available

\* the two early returns of start()
start_returns_early(available, playing) == ~available \/ playing

\* a join() without a timeout
join_never_expires(waited) == FALSE

\* join(timeout=2.0) gives up
join_expired(waited) == waited >= JOIN_TIMEOUT

\* an error in one blob that ends the thread
chunk_error_fatal == [pc |-> "dead", task_done |-> FALSE]

\* `except Exception` around the handling of one blob: log, then task_done()
\* and the next turn of the loop
chunk_error_outcome == [pc |-> "loop", task_done |-> TRUE]

\* the handling of one blob; changed says whether its decoded format differs
\* from the one of the thread's stream, fault which call raises: what becomes
\* of the thread's stream and whether the blob was written
process_chunk(wk, changed, fault) ==
    LET need_open == wk.stream = "none" \/ changed
    IN IF fault = "decode"
       THEN [stream |-> wk.stream, ok |-> FALSE, open_failed |-> FALSE]
       ELSE IF wk.stream = "closed"
       THEN \* stop_stream() or write() on the closed stream raises
            [stream |-> "closed", ok |-> FALSE, open_failed |-> FALSE]
       ELSE IF need_open /\ fault = "open"
       THEN [stream |-> IF wk.stream = "none" THEN "none" ELSE "closed",
             ok |-> FALSE, open_failed |-> TRUE]
       ELSE IF fault = "write"
       THEN [stream |-> "open", ok |-> FALSE, open_failed |-> FALSE]
       ELSE [stream |-> "open", ok |-> TRUE, open_failed |-> FALSE]

InitPlay ==
    /\ IdleClean
    /\ IdleBuf
    /\ IdlePipe
    /\ IdleOrch
    /\ IdleChunk
    /\ IdleLlm
    /\ IdleSess
    /\ IdleTool
    /\ IdleDown
    /\ IdleEv
    /\ IdleShare
    /\ pyaudio_available \in BOOLEAN
    /\ is_playing = FALSE
    /\ audio_queue = <<>>
    /\ unfinished_tasks = 0
    /\ launched = 0
    /\ workers = [w \in Workers |-> NewWorker]
    /\ written = <<>>
    /\ dropped = {}
    /\ put_count = 0
    /\ stops = 0
    /\ main_pc = "idle"
    /\ join_wait = 0
    /\ wfc_timeout = None
    /\ wfc_elapsed = 0
    /\ play_op = "init"

OthersUnchangedPlay ==
    UNCHANGED <<vars_clean, vars_buf, vars_pipe, vars_orch, vars_chunk, vars_llm,
                vars_sess, vars_tool, vars_down, vars_ev, vars_share>>

\* start()
Start ==
    /\ main_pc = "idle"
    /\ play_op' = "start"
    /\ IF start_returns_early(pyaudio_available, is_playing)
       THEN UNCHANGED <<is_playing, launched, workers>>
       ELSE /\ launched < MaxStops + 1
            /\ is_playing' = TRUE
            /\ launched' = launched + 1
            /\ workers' = [workers EXCEPT ![launched + 1] = [NewWorker EXCEPT !.pc = "init"]]
    /\ UNCHANGED <<pyaudio_available, audio_queue, unfinished_tasks, written, dropped,
                   put_count, stops, main_pc, join_wait, wfc_timeout, wfc_elapsed>>
    /\ OthersUnchangedPlay

\* add_chunk(mp3_data)
AddChunk(empty) ==
    /\ main_pc = "idle"
    /\ play_op' = "main"
    /\ IF ~pyaudio_available \/ ~is_playing \/ empty
       THEN UNCHANGED <<audio_queue, unfinished_tasks, put_count>>
       ELSE /\ put_count < MaxChunks
            /\ put_count' = put_count + 1
            /\ audio_queue' = Append(audio_queue, put_count + 1)
            /\ unfinished_tasks' = unfinished_tasks + 1
    /\ UNCHANGED <<pyaudio_available, is_playing, launched, workers, written, dropped,
                   stops, main_pc, join_wait, wfc_timeout, wfc_elapsed>>
    /\ OthersUnchangedPlay

\* stop() up to the join
Stop ==
    /\ main_pc = "idle"
    /\ play_op' = "stop"
    /\ IF ~is_playing
       THEN UNCHANGED <<is_playing, audio_queue, unfinished_tasks, stops, main_pc, join_wait>>
       ELSE /\ stops < MaxStops
            /\ stops' = stops + 1
            /\ is_playing' = FALSE
            /\ IF pyaudio_available
               THEN /\ audio_queue' = Append(audio_queue, SENTINEL)
                    /\ unfinished_tasks' = unfinished_tasks + 1
               ELSE UNCHANGED <<audio_queue, unfinished_tasks>>
            /\ IF launched > 0 /\ is_alive(workers[launched])
               THEN main_pc' = "stop_join" /\ join_wait' = 0
               ELSE UNCHANGED <<main_pc, join_wait>>
    /\ UNCHANGED <<pyaudio_available, launched, workers, written, dropped, put_count,
                   wfc_timeout, wfc_elapsed>>
    /\ OthersUnchangedPlay

\* the join in stop() ends because the thread has ended
StopJoinDone ==
    /\ main_pc = "stop_join"
    /\ ~is_alive(workers[launched])
    /\ main_pc' = "idle"
    /\ join_wait' = 0
    /\ play_op' = "main"
    /\ UNCHANGED <<pyaudio_available, is_playing, audio_queue, unfinished_tasks, launched,
                   workers, written, dropped, put_count, stops, wfc_timeout, wfc_elapsed>>
    /\ OthersUnchangedPlay

\* the join in stop() gives up
StopJoinTimeout ==
    /\ main_pc = "stop_join"
    /\ is_alive(workers[launched])
    /\ join_expired(join_wait)
    /\ main_pc' = "idle"
    /\ join_wait' = 0
    /\ play_op' = "main"
    /\ UNCHANGED <<pyaudio_available, is_playing, audio_queue, unfinished_tasks, launched,
                   workers, written, dropped, put_count, stops, wfc_timeout, wfc_elapsed>>
    /\ OthersUnchangedPlay

\* wait_for_completion(timeout) up to its loop
WaitForCompletion(timeout) ==
    /\ main_pc = "idle"
    /\ play_op' = "main"
    /\ IF ~pyaudio_available
       THEN UNCHANGED <<main_pc, wfc_timeout, wfc_elapsed>>
       ELSE /\ main_pc' = "wfc"
            /\ wfc_timeout' = timeout
            /\ wfc_elapsed' = 0
    /\ UNCHANGED <<pyaudio_available, is_playing, audio_queue, unfinished_tasks, launched,
                   workers, written, dropped, put_count, stops, join_wait>>
    /\ OthersUnchangedPlay

\* one turn of the loop of wait_for_completion
WfcPoll ==
    /\ main_pc = "wfc"
    /\ IF unfinished_tasks = 0
       THEN /\ main_pc' = "idle"
            /\ play_op' = "main"
            /\ wfc_timeout' = None
            /\ wfc_elapsed' = 0
       ELSE IF wfc_timeout # None /\ wfc_elapsed >= wfc_timeout
       THEN /\ main_pc' = "idle"
            /\ play_op' = "main"
            /\ wfc_timeout' = None
            /\ wfc_elapsed' = 0
       ELSE /\ play_op' = "main"
            /\ UNCHANGED <<main_pc, wfc_timeout, wfc_elapsed>>
    /\ UNCHANGED <<pyaudio_available, is_playing, audio_queue, unfinished_tasks, launched,
                   workers, written, dropped, put_count, stops, join_wait>>
    /\ OthersUnchangedPlay

\* a second passes for the call that waits with a timeout
WaitTick ==
    /\ \/ /\ main_pc = "stop_join"
          /\ ~join_expired(join_wait)
          /\ join_wait < MaxWait
          /\ join_wait' = join_wait + 1
          /\ UNCHANGED wfc_elapsed
       \/ /\ main_pc = "wfc"
          /\ wfc_timeout # None
          /\ wfc_elapsed < wfc_timeout
          /\ wfc_elapsed' = wfc_elapsed + 1
          /\ UNCHANGED join_wait
    /\ play_op' = "main"
    /\ UNCHANGED <<pyaudio_available, is_playing, audio_queue, unfinished_tasks, launched,
                   workers, written, dropped, put_count, stops, main_pc, wfc_timeout>>
    /\ OthersUnchangedPlay

WorkerUnchanged ==
    UNCHANGED <<pyaudio_available, is_playing, launched, put_count, stops, main_pc,
                join_wait, wfc_timeout, wfc_elapsed>>

\* _playback_worker up to its loop: the pydub import and PyAudio()
WorkerBegin(w, ok) ==
    /\ workers[w].pc = "init"
    /\ workers' = [workers EXCEPT ![w] = IF ok THEN [@ EXCEPT !.pc = "loop"] ELSE DeadWorker]
    /\ play_op' = "worker"
    /\ UNCHANGED <<audio_queue, unfinished_tasks, written, dropped>>
    /\ WorkerUnchanged
    /\ OthersUnchangedPlay

\* `while self.is_playing:`
WorkerCheck(w) ==
    /\ workers[w].pc = "loop"
    /\ workers' = [workers EXCEPT ![w] = IF is_playing THEN [@ EXCEPT !.pc = "get"]
                                         ELSE DeadWorker]
    /\ play_op' = "worker"
    /\ UNCHANGED <<audio_queue, unfinished_tasks, written, dropped>>
    /\ WorkerUnchanged
    /\ OthersUnchangedPlay

\* audio_queue.get(timeout=0.5) and the sentinel test
WorkerGet(w) ==
    /\ workers[w].pc = "get"
    /\ IF audio_queue = <<>>
       THEN /\ workers' = [workers EXCEPT ![w].pc = "loop"]
            /\ play_op' = "worker"
            /\ UNCHANGED audio_queue
       ELSE /\ audio_queue' = Tail(audio_queue)
            /\ IF Head(audio_queue) = SENTINEL
               THEN /\ workers' = [workers EXCEPT ![w] = DeadWorker]
                    /\ play_op' = "worker"
               ELSE /\ workers' = [workers EXCEPT ![w].pc = "busy",
                                                  ![w].cur = Head(audio_queue)]
                    /\ play_op' = "worker"
    /\ UNCHANGED <<unfinished_tasks, written, dropped>>
    /\ WorkerUnchanged
    /\ OthersUnchangedPlay

\* the handling of the blob in hand, from from_mp3 to task_done
WorkerProcess(w, changed, fault) ==
    /\ workers[w].pc = "busy"
    /\ LET wk == workers[w]
           r == process_chunk(wk, changed, fault)
           after == IF r.ok THEN [pc |-> "loop", task_done |-> TRUE] ELSE chunk_error_outcome
       IN /\ workers' = [workers EXCEPT
                 ![w] = IF after.pc = "dead" THEN DeadWorker
                        ELSE [pc |-> after.pc, cur |-> 0, stream |-> r.stream,
                              open_failed |-> wk.open_failed \/ r.open_failed]]
          /\ written' = IF r.ok THEN Append(written, wk.cur) ELSE written
          /\ dropped' = IF r.ok THEN dropped ELSE dropped \cup {wk.cur}
          /\ unfinished_tasks' = IF after.task_done THEN unfinished_tasks - 1
                                 ELSE unfinished_tasks
          /\ play_op' = IF r.ok THEN "worker"
                        ELSE IF fault = "decode" THEN "decode_error"
                        ELSE IF r.open_failed THEN "open_error"
                        ELSE "worker"
    /\ UNCHANGED audio_queue
    /\ WorkerUnchanged
    /\ OthersUnchangedPlay

NextPlay ==
    \/ Start
    \/ \E empty \in BOOLEAN : AddChunk(empty)
    \/ Stop
    \/ StopJoinDone
    \/ StopJoinTimeout
    \/ \E timeout \in Timeouts : WaitForCompletion(timeout)
    \/ WfcPoll
    \/ WaitTick
    \/ \E w \in Workers, ok \in BOOLEAN : WorkerBegin(w, ok)
    \/ \E w \in Workers : WorkerCheck(w)
    \/ \E w \in Workers : WorkerGet(w)
    \/ \E w \in Workers, changed \in BOOLEAN, fault \in {"none", "decode", "open", "write"} :
          WorkerProcess(w, changed, fault)

SpecPlay == InitPlay /\ [][NextPlay]_vars

\* one step of the playback thread w
WorkerStep(w) ==
    \/ \E ok \in BOOLEAN : WorkerBegin(w, ok)
    \/ WorkerCheck(w)
    \/ WorkerGet(w)
    \/ \E changed \in BOOLEAN, fault \in {"none", "decode", "open", "write"} :
          WorkerProcess(w, changed, fault)

\* every thread keeps running: the loop of wait_for_completion turns, time
\* passes and each playback thread takes its steps
SpecPlayFair ==
    /\ SpecPlay
    /\ WF_vars(WfcPoll)
    /\ WF_vars(WaitTick)
    /\ \A w \in Workers : WF_vars(WorkerStep(w))

\* what start() may change
StartState == <<is_playing, audio_queue, unfinished_tasks, launched, workers, written,
                dropped, put_count, stops, main_pc>>

AliveWorkers(ws) == {w \in Workers : is_alive(ws[w])}

\* C23 as stated: start() on a playing player changes nothing and creates no
\* second worker; start() on a player that is not playing launches exactly
\* one background worker.
C23_StartLaunchesOne ==
    [][play_op' = "start" =>
          IF is_playing
          THEN UNCHANGED StartState
          ELSE /\ launched' = launched + 1
               /\ Cardinality(AliveWorkers(workers')) = Cardinality(AliveWorkers(workers)) + 1]_vars

\* C23, made precise: start() on a playing player, or on a player without
\* PyAudio, changes nothing and creates no worker; start() on a player with
\* PyAudio that is not playing sets is_playing and launches exactly one
\* worker.
C23_StartLaunchesOneIfAvailable ==
    [][play_op' = "start" =>
          IF is_playing \/ ~pyaudio_available
          THEN UNCHANGED StartState
          ELSE /\ is_playing'
               /\ launched' = launched + 1
               /\ Cardinality(AliveWorkers(workers')) = Cardinality(AliveWorkers(workers)) + 1
               /\ \A w \in Workers : w # launched + 1 => workers'[w] = workers[w]]_vars

\* start() was called on a playing player whose worker, the second one
\* launched, is already in its loop
C23_Witness ==
    /\ play_op = "start"
    /\ is_playing
    /\ launched = 2
    /\ workers[2].pc = "get"

\* C24: stop() on a playing player puts a sentinel on the queue and waits in
\* its join for at most JOIN_TIMEOUT seconds, whatever the worker does; on a
\* player that is not playing it returns at once.
C24_StopBounded ==
    [][/\ (play_op' = "stop" /\ is_playing) =>
              /\ ~is_playing'
              /\ audio_queue' = Append(audio_queue, SENTINEL)
       /\ (play_op' = "stop" /\ ~is_playing) => main_pc' = "idle"
       /\ main_pc' = "stop_join" => join_wait' <= JOIN_TIMEOUT
       /\ (main_pc = "stop_join" /\ join_wait = JOIN_TIMEOUT) => join_wait' \in {0, JOIN_TIMEOUT}]_vars

\* stop() has returned although the worker is still busy with a blob
C24_Witness ==
    /\ main_pc = "idle"
    /\ ~is_playing
    /\ stops = 1
    /\ launched = 1
    /\ workers[1].pc = "busy"
    /\ audio_queue = <<SENTINEL>>

AllBlobsPlayed == \A b \in 1..put_count : b \in RangeOf(written)

\* C25: wait_for_completion without a timeout, called in any reachable state
\* of the player, returns once every blob put on the queue has been played.
C25_WaitReturnsOncePlayed ==
    (main_pc = "wfc" /\ wfc_timeout = None /\ AllBlobsPlayed) ~> (main_pc = "idle")

\* C26: when decoding a blob fails the blob is dropped and marked finished
\* (task_done), nothing is written, and the worker is back in its loop with
\* its stream and the rest of the queue, in its order, untouched.
C26_DecodeFailureDropsBlob ==
    [][play_op' = "decode_error" =>
          \E w \in Workers :
              /\ workers[w].pc = "busy"
              /\ workers'[w].pc = "loop"
              /\ workers'[w].stream = workers[w].stream
              /\ \A v \in Workers : v # w => workers'[v] = workers[v]
              /\ workers[w].cur \in dropped'
              /\ workers[w].cur \notin RangeOf(written')
              /\ written' = written
              /\ unfinished_tasks' = unfinished_tasks - 1
              /\ audio_queue' = audio_queue]_vars

\* the first blob has just failed to decode while the second one waits in
\* the queue and the worker goes on
C26_Witness ==
    /\ play_op = "decode_error"
    /\ dropped = {1}
    /\ audio_queue = <<2>>
    /\ launched = 1
    /\ workers[1].pc = "loop"
    /\ is_playing
    /\ unfinished_tasks = 1

\* C27: when opening the output stream fails the worker leaves its loop, and
\* a worker whose stream failed to open writes no blob afterwards.
C27_OpenFailureStopsWorker ==
    [][/\ play_op' = "open_error" =>
              \E w \in Workers : workers[w].pc = "busy" /\ workers'[w].pc = "dead"
       /\ \A w \in Workers :
              (workers[w].open_failed /\ workers[w].pc = "busy" /\ workers'[w].pc # "busy")
                  => written' = written]_vars

\* ---------------------------------------------------------------------
\* Leaving the I/O loop and the exit of the bridge process (bridge.py)
\* ---------------------------------------------------------------------

MaxOut == 2              \* chunks of output the child writes
ExitCodes == {0, 1}      \* exit codes of the child command
TERMINATED == -15        \* returncode after cmd_proc.terminate()
EXIT_OK == 0             \* sys.exit(0), and the status of a script that ends

OthersUnchangedDown ==
    UNCHANGED <<vars_clean, vars_buf, vars_pipe, vars_orch, vars_chunk, vars_llm,
                vars_sess, vars_tool, vars_play, vars_ev, vars_share>>

InitDown ==
    /\ IdleClean
    /\ IdleBuf
    /\ IdlePipe
    /\ IdleOrch
    /\ IdleChunk
    /\ IdleLlm
    /\ IdleSess
    /\ IdleTool
    /\ IdlePlay
    /\ IdleEv
    /\ IdleShare
    /\ td_pc = "top"
    /\ td_child = "alive"
    /\ td_code = None
    /\ td_out = 0
    /\ td_pty = 0
    /\ td_buf = 0
    /\ td_pending = 0
    /\ td_done = 0
    /\ td_stdin \in BOOLEAN
    /\ td_path = "none"
    /\ td_exit = None
    /\ td_fd = "open"
    /\ td_closes = 0
    /\ td_stale = FALSE

\* os.close(master_fd): closing a descriptor that is already closed is a
\* use of a stale descriptor (EBADF, or another file's descriptor)
close_fd ==
    /\ td_fd' = "closed"
    /\ td_closes' = td_closes + 1
    /\ td_stale' = (td_stale \/ td_fd = "closed")

\* schedule_narration when the cleaned text is not empty
scheduled(pending, chunks, speakable) ==
    IF chunks > 0 /\ speakable THEN pending + 1 ELSE pending

\* the child writes to its terminal
ChildOutput ==
    /\ td_child = "alive"
    /\ td_pc \in {"top", "wait", "finally", "gather"}
    /\ td_out < MaxOut
    /\ td_out' = td_out + 1
    /\ td_pty' = td_pty + 1
    /\ UNCHANGED <<td_fd, td_closes, td_stale, td_pc, td_child, td_code, td_buf, td_pending, td_done, td_stdin, td_path, td_exit>>
    /\ OthersUnchangedDown

\* the child command ends by itself
ChildExit(code) ==
    /\ td_child = "alive"
    /\ td_pc \in {"top", "wait", "finally", "gather"}
    /\ td_child' = "exited"
    /\ td_code' = code
    /\ UNCHANGED <<td_fd, td_closes, td_stale, td_pc, td_out, td_pty, td_buf, td_pending, td_done, td_stdin, td_path, td_exit>>
    /\ OthersUnchangedDown

\* top of the loop: the should_flush test, then the cmd_proc.poll() test with
\* the drain of the PTY, flush_all and the break, else the read tasks
LoopTop(do_flush, speakable) ==
    /\ td_pc = "top"
    /\ LET buf1 == IF do_flush THEN 0 ELSE td_buf
           pending1 == IF do_flush THEN scheduled(td_pending, td_buf, speakable)
                       ELSE td_pending
       IN IF td_child = "exited"
          THEN /\ td_pty' = 0
               /\ td_buf' = 0
               /\ td_pending' = scheduled(pending1, buf1 + td_pty, speakable)
               /\ td_pc' = "finally"
               /\ td_path' = "poll"
          ELSE /\ td_buf' = buf1
               /\ td_pending' = pending1
               /\ td_pc' = "wait"
               /\ UNCHANGED <<td_pty, td_path>>
    /\ UNCHANGED <<td_fd, td_closes, td_stale, td_child, td_code, td_out, td_done, td_stdin, td_exit>>
    /\ OthersUnchangedDown

\* asyncio.wait times out after 0.1 s
ReadTimeout ==
    /\ td_pc = "wait"
    /\ td_pc' = "top"
    /\ UNCHANGED <<td_fd, td_closes, td_stale, td_child, td_code, td_out, td_pty, td_buf, td_pending, td_done, td_stdin,
                   td_path, td_exit>>
    /\ OthersUnchangedDown

\* the PTY read returns data: mirrored and added to the buffer
PtyData ==
    /\ td_pc = "wait"
    /\ td_pty > 0
    /\ td_pty' = td_pty - 1
    /\ td_buf' = td_buf + 1
    /\ td_pc' = "top"
    /\ UNCHANGED <<td_fd, td_closes, td_stale, td_child, td_code, td_out, td_pending, td_done, td_stdin, td_path, td_exit>>
    /\ OthersUnchangedDown

\* the PTY read returns nothing or raises OSError, which it does once the
\* child side is closed and nothing is left to read: break
PtyClosed ==
    /\ td_pc = "wait"
    /\ td_child = "exited"
    /\ td_pty = 0
    /\ td_pc' = "finally"
    /\ td_path' = "pty"
    /\ UNCHANGED <<td_fd, td_closes, td_stale, td_child, td_code, td_out, td_pty, td_buf, td_pending, td_done, td_stdin, td_exit>>
    /\ OthersUnchangedDown

\* the stdin read returns data and it is written to the PTY
StdinData ==
    /\ td_pc = "wait"
    /\ td_stdin
    /\ td_pc' = "top"
    /\ UNCHANGED <<td_fd, td_closes, td_stale, td_child, td_code, td_out, td_pty, td_buf, td_pending, td_done, td_stdin,
                   td_path, td_exit>>
    /\ OthersUnchangedDown

\* the stdin read returns nothing or raises OSError, or the write of the
\* input to the PTY raises OSError: break
StdinClosed ==
    /\ td_pc = "wait"
    /\ td_stdin
    /\ td_pc' = "finally"
    /\ td_path' = "stdin"
    /\ UNCHANGED <<td_fd, td_closes, td_stale, td_child, td_code, td_out, td_pty, td_buf, td_pending, td_done, td_stdin, td_exit>>
    /\ OthersUnchangedDown

\* the inner finally block up to the gather: flush_all of what the buffer
\* still holds and one more narration
FinallyFlush(speakable) ==
    /\ td_pc = "finally"
    /\ td_buf' = 0
    /\ td_pending' = scheduled(td_pending, td_buf, speakable)
    /\ td_pc' = "gather"
    /\ UNCHANGED <<td_fd, td_closes, td_stale, td_child, td_code, td_out, td_pty, td_done, td_stdin, td_path, td_exit>>
    /\ OthersUnchangedDown

\* a narration task ends: done, failed or timed out
TaskEnds ==
    /\ td_pc \in {"top", "wait", "finally", "gather"}
    /\ td_pending > 0
    /\ td_pending' = td_pending - 1
    /\ td_done' = td_done + 1
    /\ UNCHANGED <<td_fd, td_closes, td_stale, td_pc, td_child, td_code, td_out, td_pty, td_buf, td_stdin, td_path, td_exit>>
    /\ OthersUnchangedDown

\* gather returns; the outer finally block closes the PTY, terminates a
\* child that is still alive and waits for it
GatherReturns ==
    /\ td_pc = "gather"
    /\ td_pending = 0
    /\ td_pc' = "closed"
    /\ close_fd
    /\ IF td_child = "alive"
       THEN td_child' = "terminated" /\ td_code' = TERMINATED
       ELSE UNCHANGED <<td_child, td_code>>
    /\ UNCHANGED <<td_out, td_pty, td_buf, td_pending, td_done, td_stdin, td_path, td_exit>>
    /\ OthersUnchangedDown

\* run_pty_with_narration and async_main return and the script ends
MainReturns ==
    /\ td_pc = "closed"
    /\ td_pc' = "exited"
    /\ td_exit' = EXIT_OK
    /\ UNCHANGED <<td_fd, td_closes, td_stale, td_child, td_code, td_out, td_pty, td_buf, td_pending, td_done, td_stdin, td_path>>
    /\ OthersUnchangedDown

\* SIGINT or SIGTERM: signal_handler closes the PTY, terminates a child that
\* is still alive and calls sys.exit(0), which raises SystemExit
SignalHandler ==
    /\ td_pc \in {"top", "wait", "finally", "gather"}
    /\ td_pc' = "unwinding"
    /\ close_fd
    /\ td_path' = "signal"
    /\ td_exit' = EXIT_OK
    /\ td_child' = IF td_child = "alive" THEN "terminated" ELSE td_child
    /\ UNCHANGED <<td_code, td_out, td_pty, td_buf, td_pending, td_done, td_stdin>>
    /\ OthersUnchangedDown

\* SystemExit leaves run_pty_with_narration through its finally blocks:
\* flush_all and one more narration, then the outer finally with its
\* os.close(master_fd)
Unwind(speakable) ==
    /\ td_pc = "unwinding"
    /\ td_buf' = 0
    /\ td_pending' = scheduled(td_pending, td_buf, speakable)
    /\ close_fd
    /\ td_pc' = "exited"
    /\ UNCHANGED <<td_child, td_code, td_out, td_pty, td_done, td_stdin, td_path, td_exit>>
    /\ OthersUnchangedDown

NextDown ==
    \/ ChildOutput
    \/ \E code \in ExitCodes : ChildExit(code)
    \/ \E do_flush \in BOOLEAN, speakable \in BOOLEAN : LoopTop(do_flush, speakable)
    \/ StdinData
    \/ ReadTimeout
    \/ PtyData
    \/ PtyClosed
    \/ StdinClosed
    \/ \E speakable \in BOOLEAN : FinallyFlush(speakable)
    \/ TaskEnds
    \/ GatherReturns
    \/ MainReturns
    \/ SignalHandler
    \/ \E speakable \in BOOLEAN : Unwind(speakable)

SpecDown == InitDown /\ [][NextDown]_vars

\* C28: when run_pty_with_narration has closed the PTY and returned after
\* the child exited by itself, no output of the child is left unread in the
\* PTY, the buffer is empty and no narration task is pending.
C28_TeardownAfterDrain ==
    (td_pc \in {"closed", "exited"} /\ td_path # "signal" /\ td_child = "exited") =>
        /\ td_pty = 0
        /\ td_buf = 0
        /\ td_pending = 0

\* C29: when the bridge process has exited and the child command has an
\* exit code, the exit status of the bridge is that code.
C29_ExitCodeOfChild ==
    (td_pc = "exited" /\ td_code # None) => td_exit = td_code

\* ---------------------------------------------------------------------
\* The event helpers (narrator-mcp/events.py)
\* ---------------------------------------------------------------------

MaxAudio == 2        \* bytes of one audio chunk
MaxSends == 2        \* calls of the helpers

AudioBytes == {0, 254}
AudioChunks == StringsUpTo(AudioBytes, MaxAudio)
Encodings == {"base64", "hex", "unknown", "BASE64"}
TextTokens == {<<97>>}

\* a character of the base64 alphabet
B64Char(i) ==
    IF i < 26 THEN 65 + i
    ELSE IF i < 52 THEN 97 + (i - 26)
    ELSE IF i < 62 THEN 48 + (i - 52)
    ELSE IF i = 62 THEN 43
    ELSE 47

RECURSIVE b64encode(_)
\* base64.b64encode(...).decode("utf-8")
b64encode(b) ==
    IF Len(b) = 0 THEN <<>>
    ELSE IF Len(b) = 1
    THEN LET x == b[1] * 65536
         IN <<B64Char(x \div 262144), B64Char((x \div 4096) % 64), 61, 61>>
    ELSE IF Len(b) = 2
    THEN LET x == b[1] * 65536 + b[2] * 256
         IN <<B64Char(x \div 262144), B64Char((x \div 4096) % 64),
              B64Char((x \div 64) % 64), 61>>
    ELSE LET x == b[1] * 65536 + b[2] * 256 + b[3]
         IN <<B64Char(x \div 262144), B64Char((x \div 4096) % 64),
              B64Char((x \div 64) % 64), B64Char(x % 64)>>
            \o b64encode(SubSeq(b, 4, Len(b)))

HexDigit(d) == IF d < 10 THEN 48 + d ELSE 97 + (d - 10)

RECURSIVE hexlify(_)
\* binascii.hexlify(...).decode("utf-8")
hexlify(b) ==
    IF Len(b) = 0 THEN <<>>
    ELSE <<HexDigit(b[1] \div 16), HexDigit(b[1] % 16)>> \o hexlify(Tail(b))

\* an encoder that falls back to base64 for a name it does not know
encode_audio_lenient(audio_bytes, encoding) ==
    IF encoding = "hex" THEN [raised |-> FALSE, data |-> hexlify(audio_bytes)]
    ELSE [raised |-> FALSE, data |-> b64encode(audio_bytes)]

\* _encode_audio: the encoded text, or ValueError
encode_audio(audio_bytes, encoding) ==
    IF encoding = "base64" THEN [raised |-> FALSE, data |-> b64encode(audio_bytes)]
    ELSE IF encoding = "hex" THEN [raised |-> FALSE, data |-> hexlify(audio_bytes)]
    ELSE [raised |-> TRUE, data |-> <<>>]

\* _dispatch: an object with send() gets json.dumps(payload), a callable the
\* payload itself
dispatch(target, payload) ==
    IF target = "sender" THEN [json |-> TRUE, payload |-> payload]
    ELSE [json |-> FALSE, payload |-> payload]

OthersUnchangedEv ==
    UNCHANGED <<vars_clean, vars_buf, vars_pipe, vars_orch, vars_chunk, vars_llm,
                vars_sess, vars_tool, vars_play, vars_down, vars_share>>

InitEv ==
    /\ IdleClean
    /\ IdleBuf
    /\ IdlePipe
    /\ IdleOrch
    /\ IdleChunk
    /\ IdleLlm
    /\ IdleSess
    /\ IdleTool
    /\ IdlePlay
    /\ IdleDown
    /\ IdleShare
    /\ ev_target \in {"sender", "callable"}
    /\ ev_sent = <<>>
    /\ ev_op = "init"
    /\ ev_encoding = ""
    /\ ev_ret = "none"
    /\ ev_calls = 0

\* send_text_event(send, token)
SendTextEvent(token) ==
    /\ ev_calls < MaxSends
    /\ ev_sent' = Append(ev_sent, dispatch(ev_target,
                      [event |-> "text_token", data |-> token, encoding |-> ""]))
    /\ ev_op' = "send_text_event"
    /\ ev_encoding' = ""
    /\ ev_ret' = "returned"
    /\ ev_calls' = ev_calls + 1
    /\ UNCHANGED ev_target
    /\ OthersUnchangedEv

\* send_audio_event(send, audio_bytes, encoding=encoding)
SendAudioEvent(audio_bytes, encoding) ==
    /\ ev_calls < MaxSends
    /\ LET payload == encode_audio(audio_bytes, encoding)
       IN IF payload.raised
          THEN /\ ev_ret' = "ValueError"
               /\ UNCHANGED ev_sent
          ELSE /\ ev_ret' = "returned"
               /\ ev_sent' = Append(ev_sent, dispatch(ev_target,
                                 [event |-> "audio_chunk", data |-> payload.data,
                                  encoding |-> encoding]))
    /\ ev_op' = "send_audio_event"
    /\ ev_encoding' = encoding
    /\ ev_calls' = ev_calls + 1
    /\ UNCHANGED ev_target
    /\ OthersUnchangedEv

NextEv ==
    \/ \E token \in TextTokens : SendTextEvent(token)
    \/ \E audio_bytes \in AudioChunks, encoding \in Encodings :
          SendAudioEvent(audio_bytes, encoding)

SpecEv == InitEv /\ [][NextEv]_vars

\* C30: a send_audio_event call whose encoding is neither "base64" nor "hex"
\* ends in ValueError and the send target receives nothing from that call.
C30_BadEncodingRaises ==
    [][(ev_op' = "send_audio_event" /\ ev_encoding' \notin {"base64", "hex"}
           /\ ev_calls' = ev_calls + 1) =>
          /\ ev_ret' = "ValueError"
          /\ ev_sent' = ev_sent]_vars

\* a call with the encoding "unknown" has raised after an earlier chunk was
\* delivered in hex, and the target still holds that one payload only
C30_Witness ==
    /\ ev_op = "send_audio_event"
    /\ ev_encoding = "unknown"
    /\ ev_ret = "ValueError"
    /\ ev_calls = 2
    /\ ev_target = "callable"
    /\ ev_sent = <<[json |-> FALSE,
                    payload |-> [event |-> "audio_chunk", data |-> <<48, 48, 102, 101>>,
                                 encoding |-> "hex"]]>>

(***************************************************************************)
(* Recovery of the sanitizer from an interrupted sequence.                 *)
(***************************************************************************)
StringStates == {"csi", "osc", "string"}

\* C31: in every string state (inside an unterminated CSI, OSC or
\* DCS/SOS/PM/APC sequence) a lone ESC restarts escape parsing: whatever
\* follows the ESC is handled as it would be after an ESC met in plain
\* text, not as more of the interrupted sequence.
C31_EscRestartsParsing ==
    cl_state \in StringStates =>
        \A t \in StringsUpTo(CleanAlphabet, 2) :
            clean(cl_state, <<ESC>> \o t) = clean("esc", t)

(***************************************************************************)
(* A flush that has nothing safe to return.                                *)
(***************************************************************************)
\* C32: when all the text flush() would return is an incomplete escape
\* tail (the safe part of the split is empty), flush() returns "" and the
\* buffer afterwards holds exactly the content it held before the call.
C32_EmptyFlushKeepsBuffer ==
    [][(/\ op' = "flush"
        /\ buffer_len > 0
        /\ split_incomplete_escape_tail(FlushCandidate(buf, force_flush_all))[1] = <<>>)
       => /\ ret' = <<>>
          /\ buf' = buf
          /\ buffer_len' = buffer_len]_vars

\* a flush returned "" although the buffer had a complete line: the line
\* was all escape tail, and it is still in the buffer in front of the text
\* that followed it
C32_Witness ==
    /\ op = "flush"
    /\ ret = <<>>
    /\ \E k \in 1..(Len(buf) - 1) : buf[k] = NL
    /\ buf[1] = ESC
    /\ ~force_flush_all

(***************************************************************************)
(* stream_llm: the number of upstream requests.  Every upstream stream     *)
(* ends, with a finish reason or with an exception.                        *)
(***************************************************************************)
SpecLlmFair ==
    /\ SpecLlm
    /\ WF_vars(\E reason \in FinishReasons : FirstEnd(reason))
    /\ WF_vars(\E reason \in FinishReasons : ContEnd(reason))

C34_OnlySuffixEmitted ==
    (sl_pc = "cont" /\ StartsWith(sl_cbuf, sl_original)) =>
        sl_ctext = SubSeq(sl_cbuf, Len(sl_original) + 1, Len(sl_cbuf))

(***************************************************************************)
(* Conservation of the text that passes through a TextBuffer.              *)
(***************************************************************************)
\* C35: for any interleaving of add_data, should_flush, flush and flush_all
\* the strings returned by flush and flush_all, concatenated in order and
\* followed by the current buffer, are the concatenation of all text added:
\* each returned string is the front of the text not yet returned, and what
\* is left of that text is the buffer.
C35_TextConserved ==
    /\ conserved
    /\ unreturned = buf
    /\ buffer_len = Len(buf)

\* a flush handed out the complete lines and kept the text after the last
\* newline: what it returned and what it kept are together the text added
C35_Witness ==
    /\ op = "flush"
    /\ ret # <<>>
    /\ ret[Len(ret)] = NL
    /\ buf # <<>>
    /\ buf[1] # ESC
    /\ unreturned = buf

(***************************************************************************)
(* narrator-mcp/server.py: several narration requests on one server.       *)
(* app_lifespan builds one AppContext with one Chunker; every              *)
(* generate_narration call gets that context, a tts_queue of its own and   *)
(* an LLM stream of its own.  The tokens of request r are made of the      *)
(* letter LetterOf(r) and the full stop.                                   *)
(***************************************************************************)
MaxShared == 3

LetterOf(r) == 119 + r
OwnTokens(r) == {<<LetterOf(r)>>, <<LetterOf(r), 46>>}

\* an item of a tts_queue: a chunk of text, or the None that ends the stream
ChunkItem(text) == [end |-> FALSE, text |-> text]
EndItem == [end |-> TRUE, text |-> <<>>]

\* await tts_queue.put(block) for a block that is not empty after stripping
put_if_speakable(q, block) ==
    IF block # <<>> /\ Stripped(block) # <<>> THEN Append(q, ChunkItem(block)) ELSE q

InitShare ==
    /\ IdleClean
    /\ IdleBuf
    /\ IdlePipe
    /\ IdleOrch
    /\ IdleChunk
    /\ IdleLlm
    /\ IdleSess
    /\ IdleTool
    /\ IdlePlay
    /\ IdleDown
    /\ IdleEv
    /\ IdleShare

OthersUnchangedShare ==
    UNCHANGED <<vars_clean, vars_buf, vars_pipe, vars_orch, vars_chunk, vars_llm,
                vars_sess, vars_tool, vars_play, vars_down, vars_ev>>

\* generate_narration(ctx, prompt) is called for request r: run_llm starts
StartRequest(r) ==
    /\ sv_pc[r] = "idle"
    /\ sv_pc' = [sv_pc EXCEPT ![r] = "streaming"]
    /\ UNCHANGED <<sv_chunker, sv_queue, sv_count>>
    /\ OthersUnchangedShare

\* one iteration of `async for token in stream_llm(...)` of request r
RequestToken(r, token) ==
    /\ sv_pc[r] = "streaming"
    /\ sv_count < MaxShared
    /\ sv_count' = sv_count + 1
    /\ LET a == add_token(sv_chunker, token)
       IN /\ sv_chunker' = a.buffer
          /\ sv_queue' = [sv_queue EXCEPT ![r] = put_if_speakable(@, a.chunk)]
    /\ UNCHANGED sv_pc
    /\ OthersUnchangedShare

\* the stream of request r ends: flush the chunker, put the leftover and None
RequestEnd(r) ==
    /\ sv_pc[r] = "streaming"
    /\ LET f == chunker_flush(sv_chunker)
       IN /\ sv_chunker' = f.buffer
          /\ sv_queue' = [sv_queue EXCEPT ![r] = Append(put_if_speakable(@, f.chunk), EndItem)]
    /\ sv_pc' = [sv_pc EXCEPT ![r] = "done"]
    /\ UNCHANGED sv_count
    /\ OthersUnchangedShare

\* the stream of request r raises: the except clauses put None and re-raise
RequestFail(r) ==
    /\ sv_pc[r] = "streaming"
    /\ sv_queue' = [sv_queue EXCEPT ![r] = Append(@, EndItem)]
    /\ sv_pc' = [sv_pc EXCEPT ![r] = "failed"]
    /\ UNCHANGED <<sv_chunker, sv_count>>
    /\ OthersUnchangedShare

NextShare ==
    \/ \E r \in Requests : StartRequest(r)
    \/ \E r \in Requests : \E token \in OwnTokens(r) : RequestToken(r, token)
    \/ \E r \in Requests : RequestEnd(r)
    \/ \E r \in Requests : RequestFail(r)

SpecShare == InitShare /\ [][NextShare]_vars

\* C36: every chunk on a request's TTS queue is made only of tokens of that
\* request's own LLM stream: no token of one request appears in a chunk of
\* another, whether the two run concurrently or the earlier one ended with
\* an error.
C36_ChunksOfOwnTokens ==
    \A r \in Requests : \A k \in 1..Len(sv_queue[r]) :
        \A i \in 1..Len(sv_queue[r][k].text) :
            sv_queue[r][k].text[i] \in {LetterOf(r), 46}

(***************************************************************************)
(* generate_narration: the end-of-stream sentinel.  The LLM stream ends or *)
(* raises, every TTS stream ends or raises, and the event loop runs every  *)
(* coroutine that is ready.                                                *)
(***************************************************************************)
SpecPipeFair ==
    /\ SpecPipe
    /\ WF_vars(LlmEnd \/ LlmFail)
    /\ WF_vars(TtsGet \/ TtsBlockDone \/ TtsFail)
    /\ WF_vars(GatherRaise \/ GatherReturn)

\* the sentinels put so far: those still queued, and the one run_tts took
\* when it left its loop
SentinelsPut ==
    Cardinality({k \in 1..Len(tts_queue) : tts_queue[k] = 0})
        + (IF tts_pc = "done" THEN 1 ELSE 0)

\* C37: the LLM producer puts exactly one end-of-stream sentinel on the TTS
\* queue on every way it can finish (normal end or exception), none before
\* it finishes and no chunk after it; so the TTS consumer always leaves its
\* loop and generate_narration always returns or raises.
C37_OneSentinel ==
    /\ [](llm_pc = "streaming" => SentinelsPut = 0)
    /\ [](llm_pc \in {"done", "failed"} =>
            /\ SentinelsPut = 1
            /\ \A k \in 1..Len(tts_queue) : tts_queue[k] = 0 => k = Len(tts_queue)
            /\ tts_pc = "done" => tts_queue = <<>>)
    /\ <>(tts_pc \in {"done", "failed"} /\ gather_result # "pending")

\* the LLM stream raised after a chunk had been put: the consumer spoke the
\* chunk, took the sentinel and left its loop, and gather raised
C37_Witness ==
    /\ llm_pc = "failed"
    /\ tts_pc = "done"
    /\ gather_result = "raised"
    /\ audio_chunks # <<>>
    /\ tts_queue = <<>>

(***************************************************************************)
(* MCPBridge.send_chunk: streamed chunks and the final audio.              *)
(***************************************************************************)
\* C38: for one narration request send_chunk enqueues audio either chunk by
\* chunk from the progress notifications or once as the final blob, never
\* both: the final blob is enqueued only if no progress chunk was.
C38_StreamedOrFinal ==
    \A i \in 1..Len(tasks) :
        /\ tasks[i].final => tasks[i].chunks = 0 /\ BlobsOf(enqueued, i) = 1
        /\ ~tasks[i].final => BlobsOf(enqueued, i) = tasks[i].chunks

\* one request ended after streaming a chunk and its final audio was not
\* enqueued; another request enqueued its final audio
C38_Witness ==
    /\ \E i \in 1..Len(tasks) :
          tasks[i].st = "done" /\ tasks[i].chunks > 0 /\ ~tasks[i].final /\ BlobsOf(enqueued, i) > 0
    /\ \E j \in 1..Len(tasks) : tasks[j].final

(***************************************************************************)
(* The PTY master descriptor over the exit paths of the bridge.            *)
(***************************************************************************)
\* C39: on every exit path of run_pty_with_narration (child exit, PTY EOF,
\* exception, SIGINT/SIGTERM) the PTY master fd is closed exactly once and
\* is not read, written or closed again after that.
C39_FdClosedOnce ==
    /\ td_closes <= 1
    /\ ~td_stale
    /\ td_pc = "exited" => td_closes = 1

(***************************************************************************)
(* The playback threads of one AudioPlayer.                                *)
(***************************************************************************)
\* C40: over any sequence of start(), add_chunk() and stop() on one
\* AudioPlayer at most one playback worker thread is alive at any time, so
\* two workers never take blobs from the same queue.
C40_OneWorkerAlive ==
    Cardinality(AliveWorkers(workers)) <= 1

====
